---- MODULE Spec2Model ----
EXTENDS Integers, Sequences, FiniteSets, TLC

(***************************************************************************)
(* Model of the reminty JSX front end: the tokenizer (lexer.go), the       *)
(* structural parser and the regex-driven variable extraction (ast.go).   *)
(* Text is a TLA+ string; Go's 0-based byte index i is SubSeq(s,i+1,i+1). *)
(***************************************************************************)

VARIABLES
    lin,     \* Lexer.input
    lx,      \* Lexer cursor: [pos, line, column]
    ltoks,   \* Lexer.tokens
    lpc,     \* position of Tokenize: "scan" (in its loop) or "done"
    input,   \* source text handed to the front end (main.go)
    toks,    \* tokens returned by Tokenize(src)
    pres,    \* ParseResult of NewParserWithSource(toks, input).Parse()
    phase,   \* "lex", "parse" or "done"
    esrc,    \* source text given to the extraction functions
    esvs,    \* extractUseStateVars(esrc)
    edvs,    \* extractDerivedVars(esrc, esvs)
    ephase,  \* "state", "derived" or "done"
    acomps,  \* components found by Parse's loop, before association
    asvs,    \* all extracted state variables
    advs,    \* all extracted derived variables
    alines,  \* number of lines of the source
    aout,    \* components after the association loop of Parse
    aphase,  \* "assoc" or "done"
    xp,      \* the parser value of parseExpression's receiver
    xexpr,   \* the Expression collected by parseExpressionContent, with the
             \* parser (pos, toks) right after it
    xnode,   \* the node parseExpression returns
    xphase,  \* "start", then "done" (parseExpression) or "attr" (parseAttribute)
    dsrc,    \* source text handed to the pattern detector (main.go)
    dcomps,  \* components of the ParseResult given to Detector.Analyze
    draw,    \* first run: detector.AnalyzeSource(dsrc)
    dsem,    \* first run: detector.Analyze(result)
    draw2,   \* second run: detector.AnalyzeSource(dsrc)
    dsem2,   \* second run: detector.Analyze(result)
    dphase,  \* "start", "parsed", "run1" or "run2"
    tval,    \* the value text given to inferTypeFromValue
    ttype,   \* inferTypeFromValue(tval)
    tphase   \* "start" or "done"

lexVars == <<lin, lx, ltoks, lpc>>
pipeVars == <<input, toks, pres, phase>>
extVars == <<esrc, esvs, edvs, ephase>>
assocVars == <<acomps, asvs, advs, alines, aout, aphase>>
exprVars == <<xp, xexpr, xnode, xphase>>
detVars == <<dsrc, dcomps, draw, dsem, draw2, dsem2, dphase>>
typeVars == <<tval, ttype, tphase>>
vars == <<lexVars, pipeVars, extVars, assocVars, exprVars, detVars, typeVars>>

\* each specification below drives one group of variables; the others stay
\* at these values
LexIdle == lin = "" /\ lx = [pos |-> 0, line |-> 1, col |-> 1] /\ ltoks = <<>> /\ lpc = "idle"
PipeIdle == input = "" /\ toks = <<>> /\ pres = "none" /\ phase = "idle"
ExtIdle == esrc = "" /\ esvs = <<>> /\ edvs = <<>> /\ ephase = "idle"
AssocIdle == acomps = <<>> /\ asvs = <<>> /\ advs = <<>> /\ alines = 0 /\ aout = <<>> /\ aphase = "idle"
ExprIdle == xp = "none" /\ xexpr = "none" /\ xnode = "none" /\ xphase = "idle"
DetIdle == dsrc = "" /\ dcomps = <<>> /\ draw = <<>> /\ dsem = <<>> /\ draw2 = <<>> /\ dsem2 = <<>> /\ dphase = "idle"
TypeIdle == tval = "" /\ ttype = "" /\ tphase = "idle"

(* ---------------------------------------------------------------------- *)
(* Character helpers                                                       *)
(* ---------------------------------------------------------------------- *)

Ch(s, i) == SubSeq(s, i + 1, i + 1)

Slice(s, a, b) == SubSeq(s, a + 1, b)

Lower == {"a","b","c","d","e","f","g","h","i","j","k","l","m",
          "n","o","p","q","r","s","t","u","v","w","x","y","z"}
Upper == {"A","B","C","D","E","F","G","H","I","J","K","L","M",
          "N","O","P","Q","R","S","T","U","V","W","X","Y","Z"}
Digits == {"0","1","2","3","4","5","6","7","8","9"}

\* A character of a model string is one byte of the Go string: the byte with
\* the character's code (0 to 255). The back-quote cannot be written in a
\* TLA+ string, so the model writes byte 0x60 as BQ, the character of code
\* 0xFF. Byte 0xFF is never part of valid UTF-8, so no encoding the code
\* performs produces it; the model's texts hold no byte 0xFF.
BQ == "ÿ"

\* the bytes 0x80 to 0xFF, in order
HighChars == " ¡¢£¤¥¦§¨©ª«¬­®¯°±²³´µ¶·¸¹º»¼½¾¿ÀÁÂÃÄÅÆÇÈÉÊËÌÍÎÏÐÑÒÓÔÕÖ×ØÙÚÛÜÝÞßàáâãäåæçèéêëìíîïðñòóôõö÷øùúûüýþÿ"

\* the vertical tab 0x0B, NEL 0x85 and no-break space 0xA0 as bytes
VT == ""
NEL == Ch(HighChars, 5)
NBSP == Ch(HighChars, 32)

\* unicode.IsSpace(rune(ch)) for a byte ch
IsSpace(c) == c \in {" ", "\t", "\n", "\r", "\f", VT, NEL, NBSP}

\* string(ch) for a byte ch: the UTF-8 encoding of the rune ch
HighCode(c) == CHOOSE k \in 0..127 : Ch(HighChars, k) = c
TextValue(c) ==
    IF c \in {Ch(HighChars, k) : k \in 0..126}
    THEN Ch(HighChars, IF HighCode(c) < 64 THEN 66 ELSE 67) \o Ch(HighChars, HighCode(c) % 64)
    ELSE c

IsDigit(c) == c \in Digits

isIdentStart(c) == c \in Lower \cup Upper \cup {"_", "$"}

isIdentChar(c) == isIdentStart(c) \/ c \in Digits \/ c = "-"

(* ---------------------------------------------------------------------- *)
(* Lexer                                                                   *)
(* ---------------------------------------------------------------------- *)

NewLexerState == [pos |-> 0, line |-> 1, col |-> 1]

advance(in, st) ==
    IF st.pos >= Len(in) THEN st
    ELSE IF Ch(in, st.pos) = "\n"
         THEN [pos |-> st.pos + 1, line |-> st.line + 1, col |-> 1]
         ELSE [pos |-> st.pos + 1, line |-> st.line, col |-> st.col + 1]

peekN(in, st, n) == Slice(in, st.pos, IF st.pos + n > Len(in) THEN Len(in) ELSE st.pos + n)

emit(st, typ, value) ==
    [type |-> typ, value |-> value, line |-> st.line, col |-> st.col, offset |-> st.pos]

RECURSIVE scanWhitespaceLoop(_, _)
scanWhitespaceLoop(in, st) ==
    IF st.pos < Len(in) /\ IsSpace(Ch(in, st.pos))
    THEN scanWhitespaceLoop(in, advance(in, st)) ELSE st

RECURSIVE scanNumberLoop(_, _)
scanNumberLoop(in, st) ==
    IF st.pos < Len(in) /\ (IsDigit(Ch(in, st.pos)) \/ Ch(in, st.pos) = ".")
    THEN scanNumberLoop(in, advance(in, st)) ELSE st

RECURSIVE scanIdentLoop(_, _)
scanIdentLoop(in, st) ==
    IF st.pos < Len(in) /\ isIdentChar(Ch(in, st.pos))
    THEN scanIdentLoop(in, advance(in, st)) ELSE st

\* variant of scanStringLoop that ends an unterminated string with EOF
RECURSIVE scanStringLoop_EOFMutant(_, _, _, _)
scanStringLoop_EOFMutant(in, st, q, start) ==
    IF st.pos >= Len(in)
    THEN [st |-> st, tok |-> emit(st, "EOF", "")]
    ELSE LET c == Ch(in, st.pos) IN
         IF c = "\\" THEN scanStringLoop_EOFMutant(in, advance(in, advance(in, st)), q, start)
         ELSE IF c = q
              THEN LET st2 == advance(in, st)
                   IN [st |-> st2, tok |-> emit(st2, "String", Slice(in, start, st.pos))]
              ELSE scanStringLoop_EOFMutant(in, advance(in, st), q, start)

\* loop of scanString after the opening quote; start is the value's start
RECURSIVE scanStringLoop(_, _, _, _)
scanStringLoop(in, st, q, start) ==
    IF st.pos >= Len(in)
    THEN [st |-> st, tok |-> emit(st, "Error", "unterminated string")]
    ELSE LET c == Ch(in, st.pos) IN
         IF c = "\\" THEN scanStringLoop(in, advance(in, advance(in, st)), q, start)
         ELSE IF c = q
              THEN LET st2 == advance(in, st)
                   IN [st |-> st2, tok |-> emit(st2, "String", Slice(in, start, st.pos))]
              ELSE scanStringLoop(in, advance(in, st), q, start)

scanString(in, st, q) == LET st1 == advance(in, st) IN scanStringLoop(in, st1, q, st1.pos)

KeywordType(v) ==
    CASE v = "true" -> "True"
      [] v = "false" -> "False"
      [] v = "null" -> "Null"
      [] v = "undefined" -> "Undefined"
      [] OTHER -> "Ident"

\* Advance k characters and emit one token of the given type and value
Fixed(in, st, k, typ, v) ==
    LET st2 == IF k = 1 THEN advance(in, st)
               ELSE IF k = 2 THEN advance(in, advance(in, st))
               ELSE advance(in, advance(in, advance(in, st)))
    IN [st |-> st2, tok |-> emit(st2, typ, v)]

\* One call of Lexer.scanToken: the token it emits and the new cursor
scanToken(in, st) ==
    LET ch == Ch(in, st.pos) IN
    IF IsSpace(ch)
    THEN LET st2 == scanWhitespaceLoop(in, st)
         IN [st |-> st2, tok |-> emit(st2, "Whitespace", Slice(in, st.pos, st2.pos))]
    ELSE IF ch = "{" THEN Fixed(in, st, 1, "JSXExprOpen", "{")
    ELSE IF ch = "}" THEN Fixed(in, st, 1, "JSXExprClose", "}")
    ELSE IF ch = "<"
         THEN IF peekN(in, st, 2) = "</" THEN Fixed(in, st, 2, "TagEnd", "</")
              ELSE Fixed(in, st, 1, "TagOpen", "<")
    ELSE IF peekN(in, st, 2) = "/>" THEN Fixed(in, st, 2, "TagSelfClose", "/>")
    ELSE IF ch = ">" THEN Fixed(in, st, 1, "TagClose", ">")
    ELSE IF ch = "="
         THEN IF peekN(in, st, 2) = "=>" THEN Fixed(in, st, 2, "Arrow", "=>")
              ELSE Fixed(in, st, 1, "Equals", "=")
    ELSE IF ch = "."
         THEN IF peekN(in, st, 3) = "..." THEN Fixed(in, st, 3, "Spread", "...")
              ELSE Fixed(in, st, 1, "Dot", ".")
    ELSE IF ch = "(" THEN Fixed(in, st, 1, "LParen", "(")
    ELSE IF ch = ")" THEN Fixed(in, st, 1, "RParen", ")")
    ELSE IF ch = "," THEN Fixed(in, st, 1, "Comma", ",")
    ELSE IF ch = ":" THEN Fixed(in, st, 1, "Colon", ":")
    ELSE IF ch = "?" THEN Fixed(in, st, 1, "Question", "?")
    ELSE IF peekN(in, st, 2) = "&&" THEN Fixed(in, st, 2, "AmpAmp", "&&")
    ELSE IF peekN(in, st, 2) = "||" THEN Fixed(in, st, 2, "PipePipe", "||")
    ELSE IF ch \in {"\"", "'", BQ} THEN scanString(in, st, ch)
    ELSE IF IsDigit(ch)
         THEN LET st2 == scanNumberLoop(in, st)
              IN [st |-> st2, tok |-> emit(st2, "Number", Slice(in, st.pos, st2.pos))]
    ELSE IF isIdentStart(ch)
         THEN LET st2 == scanIdentLoop(in, st)
                  v == Slice(in, st.pos, st2.pos)
              IN [st |-> st2, tok |-> emit(st2, KeywordType(v), v)]
    ELSE Fixed(in, st, 1, "Text", TextValue(ch))

\* Lexer.Tokenize as a function of the input
RECURSIVE TokenizeLoop(_, _, _)
TokenizeLoop(in, st, acc) ==
    IF st.pos < Len(in)
    THEN LET r == scanToken(in, st) IN TokenizeLoop(in, r.st, Append(acc, r.tok))
    ELSE Append(acc, emit(st, "EOF", ""))

\* a finite set of numbers in increasing order
SortedSeq(S) == [i \in 1..Cardinality(S) |-> CHOOSE x \in S : Cardinality({y \in S : y < x}) = i - 1]

\* The lexer's position, line and column once advance has consumed the
\* first p characters: line counts the newlines, column restarts at 1
\* after each one.
StateAt(in, p) ==
    LET nls == {i \in 0..(p - 1) : Ch(in, i) = "\n"}
        last == IF nls = {} THEN -1 ELSE CHOOSE i \in nls : \A i2 \in nls : i >= i2
    IN [pos |-> p, line |-> 1 + Cardinality(nls), col |-> p - last]

\* The position after the token that scanToken reads from position p.
NextPos(in) == [p \in 0..Len(in) |-> IF p < Len(in) THEN scanToken(in, StateAt(in, p)).st.pos ELSE p]

\* The positions reachable from the positions R in fewer than 2^k steps of
\* J, by doubling J.
RECURSIVE Orbit(_, _, _)
Orbit(J, R, k) ==
    IF k = 0 THEN R
    ELSE Orbit([p \in DOMAIN J |-> J[J[p]]], R \cup {J[p] : p \in R}, k - 1)

RECURSIVE Log2Ceil(_)
Log2Ceil(n) == IF n <= 1 THEN 0 ELSE 1 + Log2Ceil((n + 1) \div 2)

\* Lexer.Tokenize: TokenizeLoop(in, NewLexerState, <<>>), computed from the
\* positions at which the loop calls scanToken (the state of the loop at
\* each call is StateAt of its position).
Tokenize(in) ==
    LET starts == Orbit(NextPos(in), {0}, Log2Ceil(Len(in)) + 1) \ {Len(in)}
        ss == SortedSeq(starts)
    IN [i \in 1..Len(ss) |-> scanToken(in, StateAt(in, ss[i])).tok]
       \o <<emit(StateAt(in, Len(in)), "EOF", "")>>

(* ---------------------------------------------------------------------- *)
(* Lexer state machine: NewLexer(input) then the steps of Tokenize         *)
(* ---------------------------------------------------------------------- *)

LexAlphabet == {" ", "\n", "\f", "<", "/", ">", "{", "=", ".", "\"", BQ, "\\", "1", "a", "&", "#", "é"}

LexMaxLen == 3

RECURSIVE StrOfTuple(_)
StrOfTuple(t) == IF t = <<>> THEN "" ELSE Head(t) \o StrOfTuple(Tail(t))

LexInputs == { StrOfTuple(t) : t \in UNION { [1..k -> LexAlphabet] : k \in 0..LexMaxLen } }

LexInit ==
    /\ PipeIdle /\ ExtIdle /\ AssocIdle /\ ExprIdle /\ DetIdle /\ TypeIdle
    /\ lin \in LexInputs
    /\ lx = NewLexerState
    /\ ltoks = <<>>
    /\ lpc = "scan"

\* one iteration of the loop of Tokenize: scanToken
LexScanToken ==
    /\ lpc = "scan"
    /\ lx.pos < Len(lin)
    /\ LET r == scanToken(lin, lx) IN
         /\ lx' = r.st
         /\ ltoks' = Append(ltoks, r.tok)
    /\ UNCHANGED <<lin, lpc>>
    /\ UNCHANGED <<pipeVars, extVars, assocVars, exprVars, detVars, typeVars>>

\* loop exit of Tokenize: emit EOF and return
LexEmitEOF ==
    /\ lpc = "scan"
    /\ lx.pos >= Len(lin)
    /\ ltoks' = Append(ltoks, emit(lx, "EOF", ""))
    /\ lpc' = "done"
    /\ UNCHANGED <<lin, lx>>
    /\ UNCHANGED <<pipeVars, extVars, assocVars, exprVars, detVars, typeVars>>

LexNext == LexScanToken \/ LexEmitEOF

LexSpec == LexInit /\ [][LexNext]_vars

(* ---------------------------------------------------------------------- *)
(* Parser helpers (ast.go, "Helper methods")                               *)
(* A parser value is [toks, pos, warns, sugs, spin]; pos is 0-based as in   *)
(* Go.  spin is TRUE once a loop of the parser has come back to the same   *)
(* loop state without consuming a token: a deterministic loop in that case *)
(* runs forever, so spin = TRUE means the call does not return.            *)
(* ---------------------------------------------------------------------- *)

NilNode == [kind |-> "nil"]

EOFToken == [type |-> "EOF", value |-> "", line |-> 0, col |-> 0, offset |-> 0]

NewParser(ts) == [toks |-> ts, pos |-> 0, warns |-> <<>>, sugs |-> <<>>, spin |-> FALSE]

current(P) == IF P.pos >= Len(P.toks) THEN EOFToken ELSE P.toks[P.pos + 1]

isAtEnd(P) == P.pos >= Len(P.toks) \/ P.toks[P.pos + 1].type = "EOF"

\* Parser.advance: the parser after the call (the token is current(P))
adv(P) == IF isAtEnd(P) THEN P ELSE [P EXCEPT !.pos = @ + 1]

check(P, t) == current(P).type = t

checkIdent(P, v) == current(P).type = "Ident" /\ current(P).value = v

\* Parser.match / matchIdent: the parser after the call
match(P, t) == IF check(P, t) THEN adv(P) ELSE P

matchIdent(P, v) == IF checkIdent(P, v) THEN adv(P) ELSE P

RECURSIVE skipWhitespace(_)
skipWhitespace(P) == IF check(P, "Whitespace") THEN skipWhitespace(adv(P)) ELSE P

Contains(s, t) == \E i \in 0..(Len(s) - Len(t)) : Slice(s, i, i + Len(t)) = t

HasPrefix(s, t) == Len(s) >= Len(t) /\ SubSeq(s, 1, Len(t)) = t

HasSuffix(s, t) == Len(s) >= Len(t) /\ SubSeq(s, Len(s) - Len(t) + 1, Len(s)) = t

\* the ASCII bytes strings.TrimSpace removes
TrimSet == {" ", "\t", "\n", "\r", "\f", VT}

\* the UTF-8 encodings of the other runes unicode.IsSpace accepts: U+0085,
\* U+00A0, U+1680, U+2000 to U+200A, U+2028, U+2029, U+202F, U+205F, U+3000
UniSpaces == {"Â", "Â ", "á", "â", "â", "â", "â", "â", "â", "â", "â", "â", "â", "â", "â¨", "â©", "â¯", "â", "ã"}

UniSpacePrefixes(s) == {u \in UniSpaces : Len(u) <= Len(s) /\ SubSeq(s, 1, Len(u)) = u}
UniSpaceSuffixes(s) == {u \in UniSpaces : Len(u) <= Len(s) /\ SubSeq(s, Len(s) - Len(u) + 1, Len(s)) = u}

RECURSIVE TrimSpaceLeft(_)
TrimSpaceLeft(s) ==
    IF Len(s) > 0 /\ Ch(s, 0) \in TrimSet THEN TrimSpaceLeft(Tail(s))
    ELSE IF UniSpacePrefixes(s) # {}
         THEN TrimSpaceLeft(SubSeq(s, Len(CHOOSE u \in UniSpacePrefixes(s) : TRUE) + 1, Len(s)))
         ELSE s

RECURSIVE TrimSpaceRight(_)
TrimSpaceRight(s) ==
    IF Len(s) > 0 /\ Ch(s, Len(s) - 1) \in TrimSet THEN TrimSpaceRight(SubSeq(s, 1, Len(s) - 1))
    ELSE IF UniSpaceSuffixes(s) # {}
         THEN TrimSpaceRight(SubSeq(s, 1, Len(s) - Len(CHOOSE u \in UniSpaceSuffixes(s) : TRUE)))
         ELSE s

RECURSIVE TrimLeftSet(_, _)
TrimLeftSet(s, cs) == IF Len(s) > 0 /\ Ch(s, 0) \in cs THEN TrimLeftSet(Tail(s), cs) ELSE s

RECURSIVE TrimRightSet(_, _)
TrimRightSet(s, cs) ==
    IF Len(s) > 0 /\ Ch(s, Len(s) - 1) \in cs THEN TrimRightSet(SubSeq(s, 1, Len(s) - 1), cs) ELSE s

\* strings.TrimSpace: leading and trailing white space runes removed; an
\* invalid UTF-8 byte (a lone 0x85 or 0xA0) is not white space
TrimSpace(s) == TrimSpaceRight(TrimSpaceLeft(s))

RECURSIVE skipNonSignificantWhitespace(_)
skipNonSignificantWhitespace(P) ==
    IF check(P, "Whitespace")
    THEN LET ws == current(P).value IN
         IF ~Contains(ws, "\n") \/ TrimSpace(ws) = ""
         THEN skipNonSignificantWhitespace(adv(P))
         ELSE skipWhitespace(P)
    ELSE skipWhitespace(P)

\* the value f[x] of a function f whose domain is the single value x: the
\* parser operators below name their intermediate parser values as
\* Only([x \in {e} |-> B]), B with x bound to the value of e
Only(f) == f[CHOOSE x \in DOMAIN f : TRUE]

(* The token loops below are computed by the index where the loop exits: *)
(* the loop visits the tokens of 0-based indices a, a+1, ... in order.    *)

\* the values of tokens a .. b-1 written one after the other
RECURSIVE ConcatVals(_, _, _)
ConcatVals(ts, a, b) ==
    IF b <= a THEN ""
    ELSE IF b = a + 1 THEN ts[a + 1].value
    ELSE LET m == (a + b) \div 2 IN ConcatVals(ts, a, m) \o ConcatVals(ts, m, b)

\* number of tokens of index in a .. k-1 satisfying T
CountTok(ts, a, k, T(_)) == Cardinality({i \in a..(k - 1) : T(ts[i + 1])})

\* the least index k >= a (below Len(ts)) with Stop(k), or Len(ts)
FirstIdx(ts, a, Stop(_)) ==
    Only([ks \in {{k \in a..(Len(ts) - 1) : Stop(k)}} |->
        IF ks = {} THEN Len(ts) ELSE CHOOSE k \in ks : \A k2 \in ks : k <= k2])


TokEnd(ts, k) == ts[k + 1].type = "EOF"

IsOpenBrace(t) == t.type = "JSXExprOpen"
IsCloseBrace(t) == t.type = "JSXExprClose"

\* the loop of skipToNextStatement: it stops at a } that makes depth
\* negative or at a statement keyword at depth 0
skipToNextStatement(P) ==
    LET ts == P.toks
        a == P.pos
        D(k) == CountTok(ts, a, k, IsOpenBrace) - CountTok(ts, a, k, IsCloseBrace)
        j == FirstIdx(ts, a, LAMBDA k :
                 \/ TokEnd(ts, k)
                 \/ (ts[k + 1].type = "JSXExprClose" /\ D(k) - 1 < 0)
                 \/ (ts[k + 1].type = "Ident" /\ D(k) = 0 /\
                     ts[k + 1].value \in {"import", "export", "function", "const", "let", "var", "class"}))
    IN IF a >= Len(ts) THEN P ELSE [P EXCEPT !.pos = j]

addWarning(P, msg) ==
    [P EXCEPT !.warns = Append(@, [line |-> current(P).line, col |-> current(P).col, msg |-> msg])]

addSuggestion(P, line, react, hint, cat) ==
    [P EXCEPT !.sugs = Append(@, [line |-> line, react |-> react, hint |-> hint, cat |-> cat])]

MismatchMsg(tag, got) ==
    "Mismatched closing tag: expected </" \o tag \o ">, got </" \o got \o ">"


(* ---------------------------------------------------------------------- *)
(* The regular expressions of analyzeExpression, as Go's leftmost-first    *)
(* matcher evaluates them on these patterns                                *)
(* ---------------------------------------------------------------------- *)

IsWordChar(c) == c \in Lower \cup Upper \cup Digits \cup {"_"}

\* Go's \s
IsRegexSpace(c) == c \in {" ", "\t", "\n", "\f", "\r"}

RECURSIVE WordEnd(_, _)
WordEnd(s, i) == IF i < Len(s) /\ IsWordChar(Ch(s, i)) THEN WordEnd(s, i + 1) ELSE i

RECURSIVE WsEnd(_, _)
WsEnd(s, i) == IF i < Len(s) /\ IsRegexSpace(Ch(s, i)) THEN WsEnd(s, i + 1) ELSE i

At(s, i, t) == i >= 0 /\ i + Len(t) <= Len(s) /\ Slice(s, i, i + Len(t)) = t

\* s[0:k] matches \w+(?:\.\w+)*
PathOK(s, k) ==
    /\ k >= 1 /\ k <= Len(s)
    /\ IsWordChar(Ch(s, 0)) /\ IsWordChar(Ch(s, k - 1))
    /\ \A i \in 0..(k - 1) : IsWordChar(Ch(s, i)) \/ (Ch(s, i) = "." /\ IsWordChar(Ch(s, i + 1)))

NoMatch == [ok |-> FALSE]

\* \s*\)?\s*=>\s* from x
MapFin(s, x) ==
    LET y == WsEnd(s, x)
        y2 == IF At(s, y, ")") THEN WsEnd(s, y + 1) ELSE y
    IN IF At(s, y2, "=>") THEN [ok |-> TRUE, end |-> WsEnd(s, y2 + 2)] ELSE NoMatch

\* \s*\(\s*\(?\s*(\w+)(?:\s*,\s*(\w+))?\s*\)?\s*=>\s* from j
MapTail(s, j) ==
    LET a == WsEnd(s, j) IN
    IF ~At(s, a, "(") THEN NoMatch
    ELSE LET b == WsEnd(s, a + 1)
             c == IF At(s, b, "(") THEN WsEnd(s, b + 1) ELSE b
             e == WordEnd(s, c)
         IN IF e = c THEN NoMatch
            ELSE LET f == WsEnd(s, e)
                     g == WsEnd(s, f + 1)
                     h == WordEnd(s, g)
                     withIdx == IF At(s, f, ",") /\ h > g THEN MapFin(s, h) ELSE NoMatch
                     noIdx == MapFin(s, e)
                 IN IF withIdx.ok
                    THEN [ok |-> TRUE, item |-> Slice(s, c, e), index |-> Slice(s, g, h), end |-> withIdx.end]
                    ELSE IF noIdx.ok
                    THEN [ok |-> TRUE, item |-> Slice(s, c, e), index |-> "", end |-> noIdx.end]
                    ELSE NoMatch

\* mapRegex `^(\w+(?:\.\w+)*)\.map\s*\(\s*\(?\s*(\w+)(?:\s*,\s*(\w+))?\s*\)?\s*=>\s*`;
\* the greedy path group prefers the longest path
MapMatch(s) ==
    LET ks == {k \in 1..Len(s) : PathOK(s, k) /\ At(s, k, ".map") /\ MapTail(s, k + 4).ok}
    IN IF ks = {} THEN NoMatch
       ELSE LET k == CHOOSE k \in ks : \A k2 \in ks : k2 <= k
                t == MapTail(s, k + 4)
            IN [ok |-> TRUE, coll |-> Slice(s, 0, k), item |-> t.item, index |-> t.index, end |-> t.end]

\* isMapExpression: `^\w+(?:\.\w+)*\.map\s*\(`
isMapExpression(s) ==
    \E k \in 1..Len(s) : PathOK(s, k) /\ At(s, k, ".map") /\ At(s, WsEnd(s, k + 4), "(")

\* andRegex `^(.+?)\s*&&\s*`: the shortest one-line prefix followed by && (after spaces)
AndMatch(s) ==
    LET ks == {k \in 1..Len(s) : (\A i \in 0..(k - 1) : Ch(s, i) # "\n") /\ At(s, WsEnd(s, k), "&&")}
    IN IF ks = {} THEN NoMatch
       ELSE LET k == CHOOSE k \in ks : \A k2 \in ks : k <= k2
            IN [ok |-> TRUE, group |-> Slice(s, 0, k), end |-> WsEnd(s, WsEnd(s, k) + 2)]

\* ternaryRegex `^([^?]+)\s*\?\s*`: everything before the first ?, which must not be first
TernMatch(s) ==
    LET qs == {q \in 0..(Len(s) - 1) : Ch(s, q) = "?"}
    IN IF qs = {} THEN NoMatch
       ELSE LET q == CHOOSE q \in qs : \A q2 \in qs : q <= q2
            IN IF q = 0 THEN NoMatch
               ELSE [ok |-> TRUE, group |-> Slice(s, 0, q), end |-> WsEnd(s, q + 1)]

RECURSIVE findTernaryColonLoop(_, _, _)
findTernaryColonLoop(s, i, depth) ==
    IF i >= Len(s) THEN -1
    ELSE LET c == Ch(s, i) IN
         IF c \in {"(", "[", "{"} THEN findTernaryColonLoop(s, i + 1, depth + 1)
         ELSE IF c \in {")", "]", "}"} THEN findTernaryColonLoop(s, i + 1, depth - 1)
         ELSE IF c = ":" /\ depth = 0 THEN i
         ELSE IF c = "?" THEN findTernaryColonLoop(s, i + 1, depth + 1)
         ELSE findTernaryColonLoop(s, i + 1, depth)

\* a variant that splits at the last colon of the text
findTernaryColon_LastColon(s) ==
    LET cs == {i \in 0..(Len(s) - 1) : Ch(s, i) = ":"}
    IN IF cs = {} THEN -1 ELSE CHOOSE i \in cs : \A j \in cs : j <= i

findTernaryColon(s) == findTernaryColonLoop(s, 0, 0)

RECURSIVE stripOuterParensLoop(_, _, _)
stripOuterParensLoop(s, i, depth) ==
    IF i >= Len(s) THEN s
    ELSE LET c == Ch(s, i) IN
         IF c = "(" THEN stripOuterParensLoop(s, i + 1, depth + 1)
         ELSE IF c = ")"
              THEN IF depth - 1 = 0
                   THEN IF i < Len(s) - 1 THEN s ELSE TrimSpace(Slice(s, 1, Len(s) - 1))
                   ELSE stripOuterParensLoop(s, i + 1, depth - 1)
         ELSE stripOuterParensLoop(s, i + 1, depth)

stripOuterParens(str) ==
    LET s == TrimSpace(str) IN
    IF ~HasPrefix(s, "(") THEN s ELSE stripOuterParensLoop(s, 0, 0)

\* the body of a .map call: the inside of a leading parenthesis, then the
\* trailing ) and spaces trimmed
RECURSIVE MapParenLoop(_, _, _)
MapParenLoop(t, i, depth) ==
    IF i >= Len(t) THEN t
    ELSE LET c == Ch(t, i) IN
         IF c = "(" THEN MapParenLoop(t, i + 1, depth + 1)
         ELSE IF c = ")"
              THEN IF depth - 1 = 0 THEN Slice(t, 0, i) ELSE MapParenLoop(t, i + 1, depth - 1)
         ELSE MapParenLoop(t, i + 1, depth)

MapBody(raw, bodyStart) ==
    LET b0 == TrimLeftSet(Slice(raw, bodyStart, Len(raw)), {" ", "\t", "\n", "\r"})
        b1 == IF HasPrefix(b0, "(") THEN MapParenLoop(Tail(b0), 0, 1) ELSE b0
    IN TrimRightSet(b1, {" ", "\t", "\n", "\r", ")"})

\* the ternary split of analyzeExpression: the condition captured by
\* ternaryRegex, then the consequent and alternate texts on both sides of
\* findTernaryColon's colon, trimmed and stripped of outer parentheses;
\* ok = FALSE when the regex does not match or the colon index is not > 0
TernarySplit(raw) ==
    LET tm == TernMatch(raw)
        rest == IF tm.ok THEN Slice(raw, tm.end, Len(raw)) ELSE ""
        ci == IF tm.ok THEN findTernaryColon(rest) ELSE -1
    IN IF tm.ok /\ ci > 0
       THEN [ok |-> TRUE, cond |-> TrimSpace(tm.group),
             cons |-> stripOuterParens(TrimSpace(Slice(rest, 0, ci))),
             alt |-> stripOuterParens(TrimSpace(Slice(rest, ci + 1, Len(rest))))]
       ELSE [ok |-> FALSE]

(* ---------------------------------------------------------------------- *)
(* Parser: node-level functions.  Each returns [p |-> parser after, ...].  *)
(* ---------------------------------------------------------------------- *)

NilAttr == [kind |-> "nil"]

\* a loop that starts at depth 1 inside a { and collects token values up to
\* the balancing }, which it consumes (parseExpressionContent, spread loop)
BraceLoop(P) ==
    LET ts == P.toks
        a == P.pos
        D(k) == 1 + CountTok(ts, a, k, IsOpenBrace) - CountTok(ts, a, k, IsCloseBrace)
    IN IF a >= Len(ts) THEN [p |-> P, acc |-> ""]
       ELSE Only([j \in {FirstIdx(ts, a, LAMBDA k : TokEnd(ts, k) \/ (ts[k + 1].type = "JSXExprClose" /\ D(k) - 1 = 0))} |->
                
                    [p |-> [P EXCEPT !.pos = IF j < Len(ts) /\ ~TokEnd(ts, j) THEN j + 1 ELSE j],
                     acc |-> ConcatVals(ts, a, j)]])

\* a variant of the loop that also writes the closing }
parseExpressionContentLoop_KeepClose(P, depth, acc) ==
    LET r == BraceLoop(P) IN [r EXCEPT !.acc = @ \o "}"]

parseExpressionContentLoop(P, depth, acc) == BraceLoop(P)

parseExpressionContent(P) ==
    Only([r \in {parseExpressionContentLoop(P, 1, "")} |->
        [p |-> r.p, n |-> [kind |-> "Expression", raw |-> TrimSpace(r.acc), line |-> current(P).line]]])

parseTextLoop(P, acc) ==
    LET ts == P.toks
        a == P.pos
    IN IF a >= Len(ts) THEN [p |-> P, acc |-> acc]
       ELSE Only([j \in {FirstIdx(ts, a, LAMBDA k : TokEnd(ts, k) \/ ts[k + 1].type \in {"TagOpen", "TagEnd", "JSXExprOpen"})} |->
                 [p |-> [P EXCEPT !.pos = j], acc |-> acc \o ConcatVals(ts, a, j)]])

parseText(P) ==
    Only([r \in {parseTextLoop(P, "")} |->
    Only([text \in {TrimSpace(r.acc)} |->
        IF text = "" THEN [p |-> r.p, n |-> NilNode]
        ELSE [p |-> r.p, n |-> [kind |-> "Text", content |-> text, line |-> current(P).line]]])])

spreadLoop(P, depth, acc) == BraceLoop(P)

MkAttr(name, value, expr) ==
    [kind |-> "attr", name |-> name, value |-> value, expr |-> expr,
     isSpread |-> FALSE, spreadExpr |-> ""]

StripAttrQuotes(val) ==
    IF Len(val) >= 2 /\
       ((Ch(val, 0) = "\"" /\ Ch(val, Len(val) - 1) = "\"") \/
        (Ch(val, 0) = "'" /\ Ch(val, Len(val) - 1) = "'"))
    THEN Slice(val, 1, Len(val) - 1) ELSE val

parseAttribute(P) ==
    Only([P1 \in {skipWhitespace(P)} |->
    IF check(P1, "JSXExprOpen")
    THEN Only([P2 \in {skipWhitespace(adv(P1))} |->
         IF check(P2, "Spread")
         THEN Only([r \in {spreadLoop(adv(P2), 1, "")} |->
                  [p |-> r.p, a |-> [kind |-> "attr", name |-> "", value |-> "", expr |-> NilNode,
                                     isSpread |-> TRUE, spreadExpr |-> TrimSpace(r.acc)]]])
         ELSE [p |-> [P2 EXCEPT !.pos = @ - 1], a |-> NilAttr]])    \* "Not a spread, back up"
    ELSE IF ~check(P1, "Ident") THEN [p |-> P1, a |-> NilAttr]
    ELSE LET name == current(P1).value IN
         Only([Q2 \in {skipWhitespace(adv(P1))} |->
         IF ~check(Q2, "Equals") THEN [p |-> Q2, a |-> MkAttr(name, "", NilNode)]
         ELSE Only([Q3 \in {skipWhitespace(adv(Q2))} |->
              IF check(Q3, "String")
              THEN [p |-> adv(Q3), a |-> MkAttr(name, StripAttrQuotes(current(Q3).value), NilNode)]
              ELSE IF check(Q3, "JSXExprOpen")
              THEN Only([e \in {parseExpressionContent(adv(Q3))} |->
                       [p |-> e.p, a |-> MkAttr(name, "", e.n)]])
              ELSE [p |-> Q3, a |-> MkAttr(name, "", NilNode)]])])])

\* the attribute loop of parseElement; head is the parser at the loop condition
RECURSIVE attrLoop(_, _)
attrLoop(P, attrs) ==
    IF P.spin \/ isAtEnd(P) \/ check(P, "TagClose") \/ check(P, "TagSelfClose")
    THEN [p |-> P, attrs |-> attrs]
    ELSE Only([P1 \in {skipWhitespace(P)} |->
         IF check(P1, "TagClose") \/ check(P1, "TagSelfClose") THEN [p |-> P1, attrs |-> attrs]
         ELSE Only([r \in {parseAttribute(P1)} |->
              IF r.a.kind = "nil" /\ r.p.pos = P.pos
              THEN [p |-> [r.p EXCEPT !.spin = TRUE], attrs |-> attrs]
              ELSE attrLoop(r.p, IF r.a.kind = "nil" THEN attrs ELSE Append(attrs, r.a))])])

\* a variant in which the caller continues in the state of the parser it
\* ran the sub-parse on
SetSpin_Adopt(P, Q) == Q

\* a sub-parse that does not return keeps its caller from returning
SetSpin(P, Q) == [P EXCEPT !.spin = @ \/ Q.spin]

MkElement(tag, attrs, kids, self, line, closeTag) ==
    [kind |-> "Element", tag |-> tag, attrs |-> attrs, children |-> kids,
     selfClose |-> self, line |-> line, closeTag |-> closeTag]

RECURSIVE parseNode(_), parseElement(_), childLoop(_, _), parseFragment(_),
          fragLoop(_, _), parseExpression(_), analyzeExpression(_, _), ParseJSX(_),
          SubParse(_)

\* a fresh Lexer and Parser over a substring: NewParser(NewLexer(t).Tokenize()).ParseJSX()
SubParse(text) == ParseJSX(NewParser(Tokenize(text)))

ParseJSX(P) == parseNode(skipWhitespace(P))

parseNode(P) ==
    Only([P1 \in {skipWhitespace(P)} |->
    IF isAtEnd(P1) THEN [p |-> P1, n |-> NilNode]
    ELSE IF check(P1, "JSXExprOpen") THEN parseExpression(P1)
    ELSE IF check(P1, "TagOpen") THEN parseElement(P1)
    ELSE parseText(P1)])

childLoop(P, kids) ==
    IF P.spin \/ isAtEnd(P) THEN [p |-> P, kids |-> kids]
    ELSE Only([P1 \in {skipNonSignificantWhitespace(P)} |->
         IF check(P1, "TagEnd") THEN [p |-> P1, kids |-> kids]
         ELSE Only([r \in {parseNode(P1)} |->
              IF r.p.spin \/ r.n.kind = "nil" THEN [p |-> r.p, kids |-> kids]
              ELSE childLoop(r.p, Append(kids, r.n))])])

parseElement(P) ==
    IF ~check(P, "TagOpen") THEN [p |-> P, n |-> NilNode]
    ELSE Only([P1 \in {skipWhitespace(adv(P))} |->
    IF check(P1, "TagClose") THEN parseFragment(adv(P1))
    ELSE IF ~check(P1, "Ident") THEN [p |-> addWarning(P1, "Expected tag name after <"), n |-> NilNode]
    ELSE LET tag == current(P1).value
             line == current(P1).line
         IN Only([al \in {attrLoop(adv(P1), <<>>)} |->
            LET P3 == al.p IN
            IF P3.spin THEN [p |-> P3, n |-> NilNode]
            ELSE IF check(P3, "TagSelfClose")
            THEN [p |-> adv(P3), n |-> MkElement(tag, al.attrs, <<>>, TRUE, line, "")]
            ELSE IF ~check(P3, "TagClose")
            THEN [p |-> addWarning(P3, "Expected > to close tag"),
                  n |-> MkElement(tag, al.attrs, <<>>, FALSE, line, "")]
            ELSE Only([cl \in {childLoop(adv(P3), <<>>)} |->
                 LET P4 == cl.p IN
                 IF P4.spin THEN [p |-> P4, n |-> NilNode]
                 ELSE IF check(P4, "TagEnd")
                 THEN Only([P5 \in {skipWhitespace(adv(P4))} |->
                      IF check(P5, "Ident")
                      THEN LET closing == current(P5).value IN
                           Only([P7 \in {IF closing # tag THEN addWarning(adv(P5), MismatchMsg(tag, closing)) ELSE adv(P5)} |->
                               
                                   [p |-> match(skipWhitespace(P7), "TagClose"),
                                    n |-> MkElement(tag, al.attrs, cl.kids, FALSE, line, closing)]])
                      ELSE [p |-> match(skipWhitespace(P5), "TagClose"),
                            n |-> MkElement(tag, al.attrs, cl.kids, FALSE, line, "")]])
                 ELSE [p |-> P4, n |-> MkElement(tag, al.attrs, cl.kids, FALSE, line, "")]])])])

fragLoop(P, kids) ==
    IF P.spin \/ isAtEnd(P) THEN [p |-> P, kids |-> kids]
    ELSE Only([P1 \in {skipNonSignificantWhitespace(P)} |->
         IF check(P1, "TagEnd") THEN [p |-> match(skipWhitespace(adv(P1)), "TagClose"), kids |-> kids]
         ELSE Only([r \in {parseNode(P1)} |->
              IF r.p.spin \/ r.n.kind = "nil" THEN [p |-> r.p, kids |-> kids]
              ELSE fragLoop(r.p, Append(kids, r.n))])])

parseFragment(P) ==
    Only([fl \in {fragLoop(P, <<>>)} |->
        [p |-> fl.p, n |-> [kind |-> "Fragment", children |-> fl.kids, line |-> current(P).line]]])

parseExpression(P) ==
    IF ~check(P, "JSXExprOpen") THEN [p |-> P, n |-> NilNode]
    ELSE Only([r \in {parseExpressionContent(adv(P))} |->
         Only([a \in {analyzeExpression(r.p, r.n)} |->
             IF a.n.kind # "nil" THEN a ELSE [p |-> a.p, n |-> r.n]])])

analyzeExpression(P, expr) ==
    LET raw == expr.raw IN
    Only([mm \in {MapMatch(raw)} |->
    IF mm.ok
    THEN Only([sub \in {SubParse(MapBody(raw, mm.end))} |->
             [p |-> SetSpin(P, sub.p),
              n |-> [kind |-> "Map", collection |-> mm.coll, itemVar |-> mm.item,
                     indexVar |-> mm.index, body |-> sub.n, line |-> expr.line]]])
    ELSE Only([am \in {AndMatch(raw)} |->
    IF am.ok
    THEN Only([sub \in {SubParse(stripOuterParens(TrimSpace(Slice(raw, am.end, Len(raw)))))} |->
             [p |-> SetSpin(P, sub.p),
              n |-> [kind |-> "Conditional", condition |-> TrimSpace(am.group),
                     consequent |-> sub.n, line |-> expr.line]]])
    ELSE Only([ts \in {TernarySplit(raw)} |->
         IF ts.ok
         THEN Only([cons \in {IF isMapExpression(ts.cons)
                  THEN analyzeExpression(P, [raw |-> ts.cons, line |-> expr.line])
                  ELSE SubParse(ts.cons)} |->
              Only([alt \in {IF isMapExpression(ts.alt)
                  THEN analyzeExpression(P, [raw |-> ts.alt, line |-> expr.line])
                  ELSE SubParse(ts.alt)} |->
                  [p |-> SetSpin(SetSpin(P, cons.p), alt.p),
                   n |-> [kind |-> "Ternary", condition |-> ts.cond,
                          consequent |-> cons.n, alternate |-> alt.n, line |-> expr.line]]])])
         ELSE [p |-> P, n |-> NilNode]])])])

(* ---------------------------------------------------------------------- *)
(* Parser: top-level functions                                             *)
(* ---------------------------------------------------------------------- *)

\* loop collecting a complex default value in parseProps
propDefaultLoop(P, depth, acc) ==
    LET ts == P.toks
        a == P.pos
        D(k) == CountTok(ts, a, k, LAMBDA t : t.type \in {"JSXExprOpen", "LParen"})
                - CountTok(ts, a, k, LAMBDA t : t.type \in {"JSXExprClose", "RParen"})
    IN IF a >= Len(ts) THEN [p |-> P, acc |-> acc]
       ELSE Only([j \in {FirstIdx(ts, a, LAMBDA k :
                    \/ TokEnd(ts, k)
                    \/ (ts[k + 1].type \in {"JSXExprClose", "RParen", "Comma"} /\ D(k) = 0))} |->
                 [p |-> [P EXCEPT !.pos = j], acc |-> acc \o ConcatVals(ts, a, j)]])

\* the destructured-parameter loop of parseProps
RECURSIVE propsLoop(_, _)
propsLoop(P, props) ==
    IF P.spin \/ isAtEnd(P) \/ check(P, "JSXExprClose") THEN [p |-> P, props |-> props]
    ELSE Only([P1 \in {skipWhitespace(P)} |->
         Only([P2 \in {skipWhitespace(adv(P1))} |->
         Only([dv \in {IF check(P2, "Equals")
             THEN Only([P3 \in {skipWhitespace(adv(P2))} |->
                      IF check(P3, "String") THEN [p |-> adv(P3), acc |-> current(P3).value]
                      ELSE Only([d \in {propDefaultLoop(P3, 0, "")} |->
                               [p |-> d.p, acc |-> TrimSpace(d.acc)]])])
             ELSE [p |-> P2, acc |-> ""]} |->
             
         Only([r \in {IF check(P1, "Ident")
             THEN [p |-> dv.p, props |-> Append(props, [name |-> current(P1).value, default |-> dv.acc])]
             ELSE [p |-> P1, props |-> props]} |->
             
         Only([P4 \in {match(skipWhitespace(r.p), "Comma")} |->
             IF P4.pos = P.pos THEN [p |-> [P4 EXCEPT !.spin = TRUE], props |-> props]
             ELSE propsLoop(P4, r.props)])])])])])

parseProps(P) ==
    Only([P1 \in {skipWhitespace(P)} |->
    IF check(P1, "JSXExprOpen")
    THEN Only([r \in {propsLoop(adv(P1), <<>>)} |->
             [p |-> match(r.p, "JSXExprClose"), props |-> r.props]])
    ELSE IF check(P1, "Ident")
    THEN [p |-> adv(P1), props |-> <<[name |-> current(P1).value, default |-> ""]>>]
    ELSE [p |-> P1, props |-> <<>>]])

HookHints ==
    [useState |-> <<"Consider: server state, mintydyn State, or HTMX pattern", "useState">>,
     useEffect |-> <<"Consider: server-side logic, OnInit hook, or HTMX trigger", "useEffect">>,
     useMemo |-> <<"Consider: Go function or method - no memoization needed server-side", "memoization">>,
     useCallback |-> <<"Consider: Go function or method - no memoization needed server-side", "memoization">>,
     useContext |-> <<"Consider: function parameters or Go context.Context", "useContext">>,
     useRef |-> <<"Consider: mi.ID() for DOM references in mintydyn hooks", "useRef">>,
     useReducer |-> <<"Consider: mintydyn Rules for state machines", "useReducer">>]

\* Parser.detectHook: [p, hook] with hook.kind "nil" when name is not a hook
detectHook(P, name) ==
    IF ~HasPrefix(name, "use") THEN [p |-> P, hook |-> [kind |-> "nil"]]
    ELSE LET line == current(P).line
             hook == [kind |-> "hook", type |-> name, line |-> line]
         IN IF name \in DOMAIN HookHints
            THEN [p |-> addSuggestion(P, line, name, HookHints[name][1], HookHints[name][2]), hook |-> hook]
            ELSE [p |-> P, hook |-> hook]

\* the loop of parseComponentBody: [p, hooks, n]. From P it runs over the
\* tokens up to the first return, the first } that makes depth negative,
\* or the end, collecting the hooks of the tokens it passes; a return not
\* followed by a tag resumes the loop after it.
RECURSIVE bodyLoop(_, _, _)
bodyLoop(P, depth, hooks) ==
    LET ts == P.toks
        a == P.pos
        IsO(t) == t.type = "JSXExprOpen" \/ (t.type = "Ident" /\ t.value = "{")
        IsC(t) == ~IsO(t) /\ (t.type = "JSXExprClose" \/ (t.type = "Ident" /\ t.value = "}"))
        D(k) == depth + CountTok(ts, a, k, IsO) - CountTok(ts, a, k, IsC)
        IsRet(k) == ts[k + 1].type = "Ident" /\ ts[k + 1].value = "return"
        HookAt(k) == [kind |-> "hook", type |-> ts[k + 1].value, line |-> ts[k + 1].line]
        SugAt(k) == [line |-> ts[k + 1].line, react |-> ts[k + 1].value,
                     hint |-> HookHints[ts[k + 1].value][1], cat |-> HookHints[ts[k + 1].value][2]]
    IN IF isAtEnd(P) THEN [p |-> P, hooks |-> hooks, n |-> NilNode]
       ELSE
       Only([j \in {FirstIdx(ts, a, LAMBDA k : TokEnd(ts, k) \/ (IsC(ts[k + 1]) /\ D(k) - 1 < 0) \/ IsRet(k))} |->
       Only([hidx \in {SortedSeq({k \in a..(j - 1) : ts[k + 1].type = "Ident" /\ HasPrefix(ts[k + 1].value, "use")})} |->
       Only([sidx \in {SelectSeq(hidx, LAMBDA k : ts[k + 1].value \in DOMAIN HookHints)} |->
       Only([Pj \in {[P EXCEPT !.pos = j, !.sugs = @ \o [i \in 1..Len(sidx) |-> SugAt(sidx[i])]]} |->
       Only([hooksj \in {hooks \o [i \in 1..Len(hidx) |-> HookAt(hidx[i])]} |->
       IF j >= Len(ts) \/ ~IsRet(j) THEN [p |-> Pj, hooks |-> hooksj, n |-> NilNode]
       ELSE Only([P2 \in {skipWhitespace(adv(Pj))} |->
            Only([P3 \in {IF check(P2, "LParen") THEN skipWhitespace(adv(P2)) ELSE P2} |->
            IF check(P3, "TagOpen")
            THEN Only([r \in {parseNode(P3)} |-> [p |-> r.p, hooks |-> hooksj, n |-> r.n]])
            ELSE bodyLoop(adv(P3), D(j), hooksj)])])])])])])])

parseComponentBody(P) == bodyLoop(P, 0, <<>>)

\* Parser.parseComponent: [p, c] with c.kind "nil" when it returns nil
parseComponent(P) ==
    LET startLine == current(P).line
        isExport == checkIdent(P, "export")
    IN
    Only([P1 \in {IF isExport THEN skipWhitespace(matchIdent(skipWhitespace(adv(P)), "default")) ELSE P} |->
    LET isArrow == checkIdent(P1, "const") IN
    IF ~isArrow /\ ~checkIdent(P1, "function") THEN [p |-> P1, c |-> [kind |-> "nil"]]
    ELSE Only([P2 \in {skipWhitespace(adv(P1))} |->
         IF ~check(P2, "Ident") THEN [p |-> P2, c |-> [kind |-> "nil"]]
         ELSE LET name == current(P2).value IN
              Only([P3 \in {adv(P2)} |->
              IF Ch(name, 0) \in Lower /\ ~HasPrefix(name, "use")
              THEN [p |-> skipToNextStatement(P3), c |-> [kind |-> "nil"]]
              ELSE Only([P4 \in {skipWhitespace(P3)} |->
                   Only([P5 \in {IF isArrow THEN skipWhitespace(match(P4, "Equals")) ELSE P4} |->
                   Only([pr \in {IF check(P5, "LParen")
                       THEN Only([r \in {parseProps(adv(P5))} |-> [p |-> match(r.p, "RParen"), props |-> r.props]])
                       ELSE [p |-> P5, props |-> <<>>]} |->
                       
                   Only([P6 \in {skipWhitespace(pr.p)} |->
                   Only([P7 \in {IF isArrow THEN skipWhitespace(match(P6, "Arrow")) ELSE P6} |->
                   Only([b \in {IF P7.spin THEN [p |-> P7, hooks |-> <<>>, n |-> NilNode]
                       ELSE parseComponentBody(P7)} |->
                       
                       [p |-> b.p,
                        c |-> [kind |-> "Component", name |-> name, props |-> pr.props,
                               body |-> b.n, hooks |-> b.hooks, line |-> startLine,
                               stateVars |-> <<>>, derivedVars |-> <<>>]]])])])])])])])])])

\* the named-import loop of parseImport
RECURSIVE importNamedLoop(_, _)
importNamedLoop(P, named) ==
    IF P.spin \/ isAtEnd(P) \/ check(P, "JSXExprClose") THEN [p |-> P, named |-> named]
    ELSE Only([P1 \in {skipWhitespace(P)} |->
         LET name == current(P1).value IN
         Only([P2 \in {skipWhitespace(adv(P1))} |->
         Only([al \in {IF checkIdent(P2, "as")
             THEN Only([P3 \in {skipWhitespace(adv(P2))} |->
                      IF check(P3, "Ident") THEN [p |-> adv(P3), alias |-> current(P3).value]
                      ELSE [p |-> P3, alias |-> name]])
             ELSE [p |-> P2, alias |-> name]} |->
             
         Only([r \in {IF check(P1, "Ident")
             THEN [p |-> al.p, named |-> {x \in named : x[1] # name} \cup {<<name, al.alias>>}]
             ELSE [p |-> P1, named |-> named]} |->
             
         Only([P4 \in {match(skipWhitespace(r.p), "Comma")} |->
             IF P4.pos = P.pos THEN [p |-> [P4 EXCEPT !.spin = TRUE], named |-> named]
             ELSE importNamedLoop(P4, r.named)])])])])])

importSkipLoop(P) ==
    LET ts == P.toks IN
    IF P.pos >= Len(ts) THEN P
    ELSE [P EXCEPT !.pos = FirstIdx(ts, P.pos, LAMBDA k :
                                TokEnd(ts, k) \/ (ts[k + 1].type = "Ident" /\
                                                  ts[k + 1].value \in {"import", "export", "function", "const"}))]

\* Parser.parseImport: [p, imp]
parseImport(P) ==
    IF ~checkIdent(P, "import") THEN [p |-> P, imp |-> [kind |-> "nil"]]
    ELSE Only([P0 \in {adv(P)} |->
         Only([P1 \in {skipWhitespace(P0)} |->
         LET hasDefault == check(P1, "Ident") /\ ~checkIdent(P1, "from") IN
         Only([P2 \in {IF hasDefault
             THEN Only([Q \in {skipWhitespace(adv(P1))} |->
                      IF check(Q, "Comma") THEN skipWhitespace(adv(Q)) ELSE Q])
             ELSE P1} |->
             
         Only([nl \in {IF check(P2, "JSXExprOpen")
             THEN Only([r \in {importNamedLoop(adv(P2), {})} |->
                      [p |-> match(r.p, "JSXExprClose"), named |-> r.named]])
             ELSE [p |-> P2, named |-> {}]} |->
             
         Only([P3 \in {skipWhitespace(nl.p)} |->
         Only([P4 \in {skipWhitespace(matchIdent(P3, "from"))} |->
         LET fromStr == checkIdent(P3, "from") /\ check(P4, "String") IN
         Only([P5 \in {IF fromStr THEN adv(P4) ELSE IF checkIdent(P3, "from") THEN P4 ELSE P3} |->
             [p |-> IF P5.spin THEN P5 ELSE importSkipLoop(P5),
              imp |-> [kind |-> "import", default |-> IF hasDefault THEN current(P1).value ELSE "",
                       named |-> nl.named, source |-> IF fromStr THEN current(P4).value ELSE "",
                       line |-> current(P0).line]]])])])])])])])

(* ---------------------------------------------------------------------- *)
(* Variable extraction (extractUseStateVars, inferTypeFromValue,           *)
(* extractDerivedVars)                                                     *)
(* ---------------------------------------------------------------------- *)

LineOf(s, i) == 1 + Cardinality({j \in 0..(i - 1) : Ch(s, j) = "\n"})

\* first index >= i holding character c, or -1
FirstFrom(s, i, c) ==
    LET js == {j \in i..(Len(s) - 1) : Ch(s, j) = c}
    IN IF js = {} THEN -1 ELSE CHOOSE j \in js : \A j2 \in js : j <= j2

\* `const\s+\[(\w+),\s*(\w+)\]\s*=\s*useState(?:<[^>]+>)?\s*\(([^)]*)\)` anchored at i
StateMatchAt(s, i) ==
    LET a == i + 5
        b == WsEnd(s, a)
        d == WordEnd(s, b + 1)
        e == WsEnd(s, d + 1)
        f == WordEnd(s, e)
        g == WsEnd(s, f + 1)
        h == WsEnd(s, g + 1)
        j == h + 8
        gt == FirstFrom(s, j + 1, ">")
        j2 == IF At(s, j, "<") /\ gt > j + 1 THEN gt + 1 ELSE j
        m == WsEnd(s, j2)
        n == FirstFrom(s, m + 1, ")")
    IN IF /\ At(s, i, "const") /\ b > a /\ At(s, b, "[") /\ d > b + 1 /\ At(s, d, ",")
          /\ f > e /\ At(s, f, "]") /\ At(s, g, "=") /\ At(s, h, "useState")
          /\ At(s, m, "(") /\ n >= 0
       THEN [ok |-> TRUE, name |-> Slice(s, b + 1, d), setter |-> Slice(s, e, f),
             init |-> Slice(s, m + 1, n), start |-> i, end |-> n + 1]
       ELSE NoMatch

ToLowerMap ==
    [c \in Upper |-> CASE c = "A" -> "a" [] c = "B" -> "b" [] c = "C" -> "c" [] c = "D" -> "d"
                       [] c = "E" -> "e" [] c = "F" -> "f" [] c = "G" -> "g" [] c = "H" -> "h"
                       [] c = "I" -> "i" [] c = "J" -> "j" [] c = "K" -> "k" [] c = "L" -> "l"
                       [] c = "M" -> "m" [] c = "N" -> "n" [] c = "O" -> "o" [] c = "P" -> "p"
                       [] c = "Q" -> "q" [] c = "R" -> "r" [] c = "S" -> "s" [] c = "T" -> "t"
                       [] c = "U" -> "u" [] c = "V" -> "v" [] c = "W" -> "w" [] c = "X" -> "x"
                       [] c = "Y" -> "y" [] c = "Z" -> "z"]

\* ASCII-only lower-casing: strconv's lower and its case-blind comparisons
RECURSIVE AsciiLower(_)
AsciiLower(s) ==
    IF s = "" THEN ""
    ELSE (IF Ch(s, 0) \in Upper THEN ToLowerMap[Ch(s, 0)] ELSE Ch(s, 0)) \o AsciiLower(Tail(s))

\* unicode.ToLower on the runes other than A to Z that it changes, each
\* rune as its UTF-8 bytes: records of 8 bytes, the rune then its lower-case
\* rune, each padded to 4 bytes with 0xC0 (a byte no UTF-8 text holds)
LowerTable ==
    "ÃÀÀÃ ÀÀÃÀÀÃ¡ÀÀÃÀÀÃ¢ÀÀÃÀÀÃ£ÀÀÃÀÀÃ¤ÀÀÃÀÀÃ¥ÀÀÃÀÀÃ¦ÀÀÃÀÀÃ§ÀÀÃÀÀÃ¨ÀÀÃÀÀÃ©ÀÀÃÀÀÃªÀÀÃÀÀÃ«ÀÀÃÀÀÃ¬ÀÀÃÀÀÃ­ÀÀÃÀÀÃ®ÀÀÃÀÀÃ¯ÀÀÃÀÀÃ°ÀÀÃÀÀÃ±ÀÀÃÀÀÃ²ÀÀÃÀÀÃ³ÀÀÃÀÀÃ´ÀÀÃÀÀÃµÀÀÃÀÀÃ¶ÀÀÃÀÀÃ¸ÀÀÃÀÀÃ¹ÀÀÃÀÀÃºÀÀÃÀÀÃ»ÀÀÃÀÀÃ¼ÀÀÃÀÀÃ½ÀÀÃÀÀÃ¾ÀÀÄÀÀÄÀÀÄÀÀÄÀÀ" \o
    "ÄÀÀÄÀÀÄÀÀÄÀÀÄÀÀÄÀÀÄÀÀÄÀÀÄÀÀÄÀÀÄÀÀÄÀÀÄÀÀÄÀÀÄÀÀÄÀÀÄÀÀÄÀÀÄÀÀÄÀÀÄÀÀÄÀÀÄÀÀÄÀÀÄÀÀÄÀÀÄÀÀÄÀÀÄ ÀÀÄ¡ÀÀÄ¢ÀÀÄ£ÀÀÄ¤ÀÀÄ¥ÀÀÄ¦ÀÀÄ§ÀÀÄ¨ÀÀÄ©ÀÀÄªÀÀÄ«ÀÀÄ¬ÀÀÄ­ÀÀÄ®ÀÀÄ¯ÀÀÄ°ÀÀiÀÀÀÄ²ÀÀÄ³ÀÀÄ´ÀÀÄµÀÀÄ¶ÀÀÄ·ÀÀÄ¹ÀÀÄºÀÀÄ»ÀÀÄ¼ÀÀÄ½ÀÀÄ¾ÀÀÄ¿ÀÀÅÀÀÅÀÀÅÀÀÅÀÀÅÀÀ" \o
    "ÅÀÀÅÀÀÅÀÀÅÀÀÅÀÀÅÀÀÅÀÀÅÀÀÅÀÀÅÀÀÅÀÀÅÀÀÅÀÀÅÀÀÅÀÀÅÀÀÅÀÀÅÀÀÅÀÀÅÀÀÅÀÀÅÀÀÅÀÀÅÀÀÅÀÀÅÀÀÅ ÀÀÅ¡ÀÀÅ¢ÀÀÅ£ÀÀÅ¤ÀÀÅ¥ÀÀÅ¦ÀÀÅ§ÀÀÅ¨ÀÀÅ©ÀÀÅªÀÀÅ«ÀÀÅ¬ÀÀÅ­ÀÀÅ®ÀÀÅ¯ÀÀÅ°ÀÀÅ±ÀÀÅ²ÀÀÅ³ÀÀÅ´ÀÀÅµÀÀÅ¶ÀÀÅ·ÀÀÅ¸ÀÀÃ¿ÀÀÅ¹ÀÀÅºÀÀÅ»ÀÀÅ¼ÀÀÅ½ÀÀÅ¾ÀÀÆÀÀÉÀÀÆÀÀÆÀÀÆÀÀÆÀÀ" \o
    "ÆÀÀÉÀÀÆÀÀÆÀÀÆÀÀÉÀÀÆÀÀÉÀÀÆÀÀÆÀÀÆÀÀÇÀÀÆÀÀÉÀÀÆÀÀÉÀÀÆÀÀÆÀÀÆÀÀÉ ÀÀÆÀÀÉ£ÀÀÆÀÀÉ©ÀÀÆÀÀÉ¨ÀÀÆÀÀÆÀÀÆÀÀÉ¯ÀÀÆÀÀÉ²ÀÀÆÀÀÉµÀÀÆ ÀÀÆ¡ÀÀÆ¢ÀÀÆ£ÀÀÆ¤ÀÀÆ¥ÀÀÆ¦ÀÀÊÀÀÆ§ÀÀÆ¨ÀÀÆ©ÀÀÊÀÀÆ¬ÀÀÆ­ÀÀÆ®ÀÀÊÀÀÆ¯ÀÀÆ°ÀÀÆ±ÀÀÊÀÀÆ²ÀÀÊÀÀÆ³ÀÀÆ´ÀÀÆµÀÀÆ¶ÀÀÆ·ÀÀÊÀÀÆ¸ÀÀÆ¹ÀÀ" \o
    "Æ¼ÀÀÆ½ÀÀÇÀÀÇÀÀÇÀÀÇÀÀÇÀÀÇÀÀÇÀÀÇÀÀÇÀÀÇÀÀÇÀÀÇÀÀÇÀÀÇÀÀÇÀÀÇÀÀÇÀÀÇÀÀÇÀÀÇÀÀÇÀÀÇÀÀÇÀÀÇÀÀÇÀÀÇÀÀÇÀÀÇÀÀÇÀÀÇÀÀÇ ÀÀÇ¡ÀÀÇ¢ÀÀÇ£ÀÀÇ¤ÀÀÇ¥ÀÀÇ¦ÀÀÇ§ÀÀÇ¨ÀÀÇ©ÀÀÇªÀÀÇ«ÀÀÇ¬ÀÀÇ­ÀÀÇ®ÀÀÇ¯ÀÀÇ±ÀÀÇ³ÀÀÇ²ÀÀÇ³ÀÀÇ´ÀÀÇµÀÀÇ¶ÀÀÆÀÀÇ·ÀÀÆ¿ÀÀÇ¸ÀÀÇ¹ÀÀÇºÀÀÇ»ÀÀÇ¼ÀÀÇ½ÀÀ" \o
    "Ç¾ÀÀÇ¿ÀÀÈÀÀÈÀÀÈÀÀÈÀÀÈÀÀÈÀÀÈÀÀÈÀÀÈÀÀÈÀÀÈÀÀÈÀÀÈÀÀÈÀÀÈÀÀÈÀÀÈÀÀÈÀÀÈÀÀÈÀÀÈÀÀÈÀÀÈÀÀÈÀÀÈÀÀÈÀÀÈÀÀÈÀÀÈÀÀÈÀÀÈÀÀÈÀÀÈ ÀÀÆÀÀÈ¢ÀÀÈ£ÀÀÈ¤ÀÀÈ¥ÀÀÈ¦ÀÀÈ§ÀÀÈ¨ÀÀÈ©ÀÀÈªÀÀÈ«ÀÀÈ¬ÀÀÈ­ÀÀÈ®ÀÀÈ¯ÀÀÈ°ÀÀÈ±ÀÀÈ²ÀÀÈ³ÀÀÈºÀÀâ±¥ÀÈ»ÀÀÈ¼ÀÀÈ½ÀÀÆÀÀÈ¾ÀÀâ±¦ÀÉÀÀÉÀÀ" \o
    "ÉÀÀÆÀÀÉÀÀÊÀÀÉÀÀÊÀÀÉÀÀÉÀÀÉÀÀÉÀÀÉÀÀÉÀÀÉÀÀÉÀÀÉÀÀÉÀÀÍ°ÀÀÍ±ÀÀÍ²ÀÀÍ³ÀÀÍ¶ÀÀÍ·ÀÀÍ¿ÀÀÏ³ÀÀÎÀÀÎ¬ÀÀÎÀÀÎ­ÀÀÎÀÀÎ®ÀÀÎÀÀÎ¯ÀÀÎÀÀÏÀÀÎÀÀÏÀÀÎÀÀÏÀÀÎÀÀÎ±ÀÀÎÀÀÎ²ÀÀÎÀÀÎ³ÀÀÎÀÀÎ´ÀÀÎÀÀÎµÀÀÎÀÀÎ¶ÀÀÎÀÀÎ·ÀÀÎÀÀÎ¸ÀÀÎÀÀÎ¹ÀÀÎÀÀÎºÀÀÎÀÀÎ»ÀÀÎÀÀÎ¼ÀÀÎÀÀÎ½ÀÀ" \o
    "ÎÀÀÎ¾ÀÀÎÀÀÎ¿ÀÀÎ ÀÀÏÀÀÎ¡ÀÀÏÀÀÎ£ÀÀÏÀÀÎ¤ÀÀÏÀÀÎ¥ÀÀÏÀÀÎ¦ÀÀÏÀÀÎ§ÀÀÏÀÀÎ¨ÀÀÏÀÀÎ©ÀÀÏÀÀÎªÀÀÏÀÀÎ«ÀÀÏÀÀÏÀÀÏÀÀÏÀÀÏÀÀÏÀÀÏÀÀÏÀÀÏÀÀÏÀÀÏÀÀÏ ÀÀÏ¡ÀÀÏ¢ÀÀÏ£ÀÀÏ¤ÀÀÏ¥ÀÀÏ¦ÀÀÏ§ÀÀÏ¨ÀÀÏ©ÀÀÏªÀÀÏ«ÀÀÏ¬ÀÀÏ­ÀÀÏ®ÀÀÏ¯ÀÀÏ´ÀÀÎ¸ÀÀÏ·ÀÀÏ¸ÀÀÏ¹ÀÀÏ²ÀÀÏºÀÀÏ»ÀÀÏ½ÀÀÍ»ÀÀÏ¾ÀÀÍ¼ÀÀ" \o
    "Ï¿ÀÀÍ½ÀÀÐÀÀÑÀÀÐÀÀÑÀÀÐÀÀÑÀÀÐÀÀÑÀÀÐÀÀÑÀÀÐÀÀÑÀÀÐÀÀÑÀÀÐÀÀÑÀÀÐÀÀÑÀÀÐÀÀÑÀÀÐÀÀÑÀÀÐÀÀÑÀÀÐÀÀÑÀÀÐÀÀÑÀÀÐÀÀÑÀÀÐÀÀÑÀÀÐÀÀÐ°ÀÀÐÀÀÐ±ÀÀÐÀÀÐ²ÀÀÐÀÀÐ³ÀÀÐÀÀÐ´ÀÀÐÀÀÐµÀÀÐÀÀÐ¶ÀÀÐÀÀÐ·ÀÀÐÀÀÐ¸ÀÀÐÀÀÐ¹ÀÀÐÀÀÐºÀÀÐÀÀÐ»ÀÀÐÀÀÐ¼ÀÀÐÀÀÐ½ÀÀÐÀÀÐ¾ÀÀ" \o
    "ÐÀÀÐ¿ÀÀÐ ÀÀÑÀÀÐ¡ÀÀÑÀÀÐ¢ÀÀÑÀÀÐ£ÀÀÑÀÀÐ¤ÀÀÑÀÀÐ¥ÀÀÑÀÀÐ¦ÀÀÑÀÀÐ§ÀÀÑÀÀÐ¨ÀÀÑÀÀÐ©ÀÀÑÀÀÐªÀÀÑÀÀÐ«ÀÀÑÀÀÐ¬ÀÀÑÀÀÐ­ÀÀÑÀÀÐ®ÀÀÑÀÀÐ¯ÀÀÑÀÀÑ ÀÀÑ¡ÀÀÑ¢ÀÀÑ£ÀÀÑ¤ÀÀÑ¥ÀÀÑ¦ÀÀÑ§ÀÀÑ¨ÀÀÑ©ÀÀÑªÀÀÑ«ÀÀÑ¬ÀÀÑ­ÀÀÑ®ÀÀÑ¯ÀÀÑ°ÀÀÑ±ÀÀÑ²ÀÀÑ³ÀÀÑ´ÀÀÑµÀÀÑ¶ÀÀÑ·ÀÀÑ¸ÀÀÑ¹ÀÀÑºÀÀÑ»ÀÀÑ¼ÀÀÑ½ÀÀ" \o
    "Ñ¾ÀÀÑ¿ÀÀÒÀÀÒÀÀÒÀÀÒÀÀÒÀÀÒÀÀÒÀÀÒÀÀÒÀÀÒÀÀÒÀÀÒÀÀÒÀÀÒÀÀÒÀÀÒÀÀÒÀÀÒÀÀÒÀÀÒÀÀÒÀÀÒÀÀÒÀÀÒÀÀÒ ÀÀÒ¡ÀÀÒ¢ÀÀÒ£ÀÀÒ¤ÀÀÒ¥ÀÀÒ¦ÀÀÒ§ÀÀÒ¨ÀÀÒ©ÀÀÒªÀÀÒ«ÀÀÒ¬ÀÀÒ­ÀÀÒ®ÀÀÒ¯ÀÀÒ°ÀÀÒ±ÀÀÒ²ÀÀÒ³ÀÀÒ´ÀÀÒµÀÀÒ¶ÀÀÒ·ÀÀÒ¸ÀÀÒ¹ÀÀÒºÀÀÒ»ÀÀÒ¼ÀÀÒ½ÀÀÒ¾ÀÀÒ¿ÀÀÓÀÀÓÀÀÓÀÀÓÀÀÓÀÀÓÀÀ" \o
    "ÓÀÀÓÀÀÓÀÀÓÀÀÓÀÀÓÀÀÓÀÀÓÀÀÓÀÀÓÀÀÓÀÀÓÀÀÓÀÀÓÀÀÓÀÀÓÀÀÓÀÀÓÀÀÓÀÀÓÀÀÓÀÀÓÀÀÓÀÀÓÀÀÓÀÀÓÀÀÓ ÀÀÓ¡ÀÀÓ¢ÀÀÓ£ÀÀÓ¤ÀÀÓ¥ÀÀÓ¦ÀÀÓ§ÀÀÓ¨ÀÀÓ©ÀÀÓªÀÀÓ«ÀÀÓ¬ÀÀÓ­ÀÀÓ®ÀÀÓ¯ÀÀÓ°ÀÀÓ±ÀÀÓ²ÀÀÓ³ÀÀÓ´ÀÀÓµÀÀÓ¶ÀÀÓ·ÀÀÓ¸ÀÀÓ¹ÀÀÓºÀÀÓ»ÀÀÓ¼ÀÀÓ½ÀÀÓ¾ÀÀÓ¿ÀÀÔÀÀÔÀÀÔÀÀÔÀÀÔÀÀÔÀÀ" \o
    "ÔÀÀÔÀÀÔÀÀÔÀÀÔÀÀÔÀÀÔÀÀÔÀÀÔÀÀÔÀÀÔÀÀÔÀÀÔÀÀÔÀÀÔÀÀÔÀÀÔÀÀÔÀÀÔÀÀÔÀÀÔÀÀÔÀÀÔÀÀÔÀÀÔÀÀÔÀÀÔ ÀÀÔ¡ÀÀÔ¢ÀÀÔ£ÀÀÔ¤ÀÀÔ¥ÀÀÔ¦ÀÀÔ§ÀÀÔ¨ÀÀÔ©ÀÀÔªÀÀÔ«ÀÀÔ¬ÀÀÔ­ÀÀÔ®ÀÀÔ¯ÀÀÔ±ÀÀÕ¡ÀÀÔ²ÀÀÕ¢ÀÀÔ³ÀÀÕ£ÀÀÔ´ÀÀÕ¤ÀÀÔµÀÀÕ¥ÀÀÔ¶ÀÀÕ¦ÀÀÔ·ÀÀÕ§ÀÀÔ¸ÀÀÕ¨ÀÀÔ¹ÀÀÕ©ÀÀÔºÀÀÕªÀÀÔ»ÀÀÕ«ÀÀ" \o
    "Ô¼ÀÀÕ¬ÀÀÔ½ÀÀÕ­ÀÀÔ¾ÀÀÕ®ÀÀÔ¿ÀÀÕ¯ÀÀÕÀÀÕ°ÀÀÕÀÀÕ±ÀÀÕÀÀÕ²ÀÀÕÀÀÕ³ÀÀÕÀÀÕ´ÀÀÕÀÀÕµÀÀÕÀÀÕ¶ÀÀÕÀÀÕ·ÀÀÕÀÀÕ¸ÀÀÕÀÀÕ¹ÀÀÕÀÀÕºÀÀÕÀÀÕ»ÀÀÕÀÀÕ¼ÀÀÕÀÀÕ½ÀÀÕÀÀÕ¾ÀÀÕÀÀÕ¿ÀÀÕÀÀÖÀÀÕÀÀÖÀÀÕÀÀÖÀÀÕÀÀÖÀÀÕÀÀÖÀÀÕÀÀÖÀÀÕÀÀÖÀÀá Àâ´Àá¡Àâ´Àá¢Àâ´Àá£Àâ´Àá¤Àâ´À" \o
    "á¥Àâ´Àá¦Àâ´Àá§Àâ´Àá¨Àâ´Àá©Àâ´ÀáªÀâ´Àá«Àâ´Àá¬Àâ´Àá­Àâ´Àá®Àâ´Àá¯Àâ´Àá°Àâ´Àá±Àâ´Àá²Àâ´Àá³Àâ´Àá´Àâ´ÀáµÀâ´Àá¶Àâ´Àá·Àâ´Àá¸Àâ´Àá¹Àâ´ÀáºÀâ´Àá»Àâ´Àá¼Àâ´Àá½Àâ´Àá¾Àâ´Àá¿Àâ´ÀáÀâ´ ÀáÀâ´¡ÀáÀâ´¢ÀáÀâ´£ÀáÀâ´¤À" \o
    "áÀâ´¥ÀáÀâ´§ÀáÀâ´­Àá Àê­°Àá¡Àê­±Àá¢Àê­²Àá£Àê­³Àá¤Àê­´Àá¥Àê­µÀá¦Àê­¶Àá§Àê­·Àá¨Àê­¸Àá©Àê­¹ÀáªÀê­ºÀá«Àê­»Àá¬Àê­¼Àá­Àê­½Àá®Àê­¾Àá¯Àê­¿Àá°Àê®Àá±Àê®Àá²Àê®Àá³Àê®Àá´Àê®ÀáµÀê®Àá¶Àê®Àá·Àê®Àá¸Àê®Àá¹Àê®ÀáºÀê®Àá»Àê®Àá¼Àê®À" \o
    "á½Àê®Àá¾Àê®Àá¿Àê®ÀáÀê®ÀáÀê®ÀáÀê®ÀáÀê®ÀáÀê®ÀáÀê®ÀáÀê®ÀáÀê®ÀáÀê®ÀáÀê®ÀáÀê®ÀáÀê®ÀáÀê®ÀáÀê®ÀáÀê®ÀáÀê®ÀáÀê® ÀáÀê®¡ÀáÀê®¢ÀáÀê®£ÀáÀê®¤ÀáÀê®¥ÀáÀê®¦ÀáÀê®§ÀáÀê®¨ÀáÀê®©ÀáÀê®ªÀáÀê®«ÀáÀê®¬À" \o
    "áÀê®­ÀáÀê®®ÀáÀê®¯Àá Àê®°Àá¡Àê®±Àá¢Àê®²Àá£Àê®³Àá¤Àê®´Àá¥Àê®µÀá¦Àê®¶Àá§Àê®·Àá¨Àê®¸Àá©Àê®¹ÀáªÀê®ºÀá«Àê®»Àá¬Àê®¼Àá­Àê®½Àá®Àê®¾Àá¯Àê®¿Àá°Àá¸Àá±Àá¹Àá²ÀáºÀá³Àá»Àá´Àá¼ÀáµÀá½Àá²ÀáÀá²ÀáÀá²ÀáÀá²ÀáÀá²ÀáÀá²ÀáÀá²ÀáÀ" \o
    "á²ÀáÀá²ÀáÀá²ÀáÀá²ÀáÀá²ÀáÀá²ÀáÀá²ÀáÀá²ÀáÀá²ÀáÀá² Àá Àá²¡Àá¡Àá²¢Àá¢Àá²£Àá£Àá²¤Àá¤Àá²¥Àá¥Àá²¦Àá¦Àá²§Àá§Àá²¨Àá¨Àá²©Àá©Àá²ªÀáªÀá²«Àá«Àá²¬Àá¬Àá²­Àá­Àá²®Àá®Àá²¯Àá¯Àá²°Àá°Àá²±Àá±Àá²²Àá²Àá²³Àá³Àá²´Àá´Àá²µÀáµÀá²¶Àá¶À" \o
    "á²·Àá·Àá²¸Àá¸Àá²¹Àá¹Àá²ºÀáºÀá²½Àá½Àá²¾Àá¾Àá²¿Àá¿Àá¸Àá¸Àá¸Àá¸Àá¸Àá¸Àá¸Àá¸Àá¸Àá¸Àá¸Àá¸Àá¸Àá¸Àá¸Àá¸Àá¸Àá¸Àá¸Àá¸Àá¸Àá¸Àá¸Àá¸Àá¸Àá¸Àá¸Àá¸Àá¸Àá¸Àá¸Àá¸Àá¸ Àá¸¡Àá¸¢Àá¸£Àá¸¤Àá¸¥Àá¸¦Àá¸§Àá¸¨Àá¸©Àá¸ªÀá¸«Àá¸¬Àá¸­Àá¸®Àá¸¯Àá¸°Àá¸±À" \o
    "á¸²Àá¸³Àá¸´Àá¸µÀá¸¶Àá¸·Àá¸¸Àá¸¹Àá¸ºÀá¸»Àá¸¼Àá¸½Àá¸¾Àá¸¿Àá¹Àá¹Àá¹Àá¹Àá¹Àá¹Àá¹Àá¹Àá¹Àá¹Àá¹Àá¹Àá¹Àá¹Àá¹Àá¹Àá¹Àá¹Àá¹Àá¹Àá¹Àá¹Àá¹Àá¹Àá¹Àá¹Àá¹Àá¹Àá¹Àá¹Àá¹Àá¹Àá¹ Àá¹¡Àá¹¢Àá¹£Àá¹¤Àá¹¥Àá¹¦Àá¹§Àá¹¨Àá¹©Àá¹ªÀá¹«Àá¹¬Àá¹­Àá¹®Àá¹¯Àá¹°Àá¹±À" \o
    "á¹²Àá¹³Àá¹´Àá¹µÀá¹¶Àá¹·Àá¹¸Àá¹¹Àá¹ºÀá¹»Àá¹¼Àá¹½Àá¹¾Àá¹¿ÀáºÀáºÀáºÀáºÀáºÀáºÀáºÀáºÀáºÀáºÀáºÀáºÀáºÀáºÀáºÀáºÀáºÀáºÀáºÀáºÀáºÀáºÀáºÀÃÀÀáº Àáº¡Àáº¢Àáº£Àáº¤Àáº¥Àáº¦Àáº§Àáº¨Àáº©ÀáºªÀáº«Àáº¬Àáº­Àáº®Àáº¯Àáº°Àáº±Àáº²Àáº³Àáº´ÀáºµÀáº¶Àáº·Àáº¸Àáº¹À" \o
    "áººÀáº»Àáº¼Àáº½Àáº¾Àáº¿Àá»Àá»Àá»Àá»Àá»Àá»Àá»Àá»Àá»Àá»Àá»Àá»Àá»Àá»Àá»Àá»Àá»Àá»Àá»Àá»Àá»Àá»Àá»Àá»Àá»Àá»Àá»Àá»Àá»Àá»Àá»Àá»Àá» Àá»¡Àá»¢Àá»£Àá»¤Àá»¥Àá»¦Àá»§Àá»¨Àá»©Àá»ªÀá»«Àá»¬Àá»­Àá»®Àá»¯Àá»°Àá»±Àá»²Àá»³Àá»´Àá»µÀá»¶Àá»·Àá»¸Àá»¹À" \o
    "á»ºÀá»»Àá»¼Àá»½Àá»¾Àá»¿Àá¼Àá¼Àá¼Àá¼Àá¼Àá¼Àá¼Àá¼Àá¼Àá¼Àá¼Àá¼Àá¼Àá¼Àá¼Àá¼Àá¼Àá¼Àá¼Àá¼Àá¼Àá¼Àá¼Àá¼Àá¼Àá¼Àá¼Àá¼Àá¼¨Àá¼ Àá¼©Àá¼¡Àá¼ªÀá¼¢Àá¼«Àá¼£Àá¼¬Àá¼¤Àá¼­Àá¼¥Àá¼®Àá¼¦Àá¼¯Àá¼§Àá¼¸Àá¼°Àá¼¹Àá¼±Àá¼ºÀá¼²Àá¼»Àá¼³Àá¼¼Àá¼´Àá¼½Àá¼µÀá¼¾Àá¼¶À" \o
    "á¼¿Àá¼·Àá½Àá½Àá½Àá½Àá½Àá½Àá½Àá½Àá½Àá½Àá½Àá½Àá½Àá½Àá½Àá½Àá½Àá½Àá½Àá½Àá½¨Àá½ Àá½©Àá½¡Àá½ªÀá½¢Àá½«Àá½£Àá½¬Àá½¤Àá½­Àá½¥Àá½®Àá½¦Àá½¯Àá½§Àá¾Àá¾Àá¾Àá¾Àá¾Àá¾Àá¾Àá¾Àá¾Àá¾Àá¾Àá¾Àá¾Àá¾Àá¾Àá¾Àá¾Àá¾Àá¾Àá¾Àá¾Àá¾Àá¾Àá¾Àá¾Àá¾À" \o
    "á¾Àá¾Àá¾Àá¾Àá¾Àá¾Àá¾¨Àá¾ Àá¾©Àá¾¡Àá¾ªÀá¾¢Àá¾«Àá¾£Àá¾¬Àá¾¤Àá¾­Àá¾¥Àá¾®Àá¾¦Àá¾¯Àá¾§Àá¾¸Àá¾°Àá¾¹Àá¾±Àá¾ºÀá½°Àá¾»Àá½±Àá¾¼Àá¾³Àá¿Àá½²Àá¿Àá½³Àá¿Àá½´Àá¿Àá½µÀá¿Àá¿Àá¿Àá¿Àá¿Àá¿Àá¿Àá½¶Àá¿Àá½·Àá¿¨Àá¿ Àá¿©Àá¿¡Àá¿ªÀá½ºÀá¿«Àá½»Àá¿¬Àá¿¥Àá¿¸Àá½¸Àá¿¹Àá½¹À" \o
    "á¿ºÀá½¼Àá¿»Àá½½Àá¿¼Àá¿³Àâ¦ÀÏÀÀâªÀkÀÀÀâ«ÀÃ¥ÀÀâ²ÀâÀâ Àâ°Àâ¡Àâ±Àâ¢Àâ²Àâ£Àâ³Àâ¤Àâ´Àâ¥ÀâµÀâ¦Àâ¶Àâ§Àâ·Àâ¨Àâ¸Àâ©Àâ¹ÀâªÀâºÀâ«Àâ»Àâ¬Àâ¼Àâ­Àâ½Àâ®Àâ¾Àâ¯Àâ¿ÀâÀâÀâ¶ÀâÀâ·ÀâÀâ¸ÀâÀâ¹ÀâÀâºÀâÀâ»ÀâÀâ¼ÀâÀâ½ÀâÀ" \o
    "â¾ÀâÀâ¿ÀâÀâÀâÀâÀâÀâÀâÀâÀâÀâÀâÀâÀâÀâÀâ ÀâÀâ¡ÀâÀâ¢ÀâÀâ£ÀâÀâ¤ÀâÀâ¥ÀâÀâ¦ÀâÀâ§ÀâÀâ¨ÀâÀâ©Àâ°Àâ°°Àâ°Àâ°±Àâ°Àâ°²Àâ°Àâ°³Àâ°Àâ°´Àâ°Àâ°µÀâ°Àâ°¶Àâ°Àâ°·Àâ°Àâ°¸Àâ°Àâ°¹Àâ°Àâ°ºÀâ°Àâ°»Àâ°Àâ°¼Àâ°Àâ°½À" \o
    "â°Àâ°¾Àâ°Àâ°¿Àâ°Àâ±Àâ°Àâ±Àâ°Àâ±Àâ°Àâ±Àâ°Àâ±Àâ°Àâ±Àâ°Àâ±Àâ°Àâ±Àâ°Àâ±Àâ°Àâ±Àâ°Àâ±Àâ°Àâ±Àâ°Àâ±Àâ°Àâ±Àâ°Àâ±Àâ°Àâ±Àâ° Àâ±Àâ°¡Àâ±Àâ°¢Àâ±Àâ°£Àâ±Àâ°¤Àâ±Àâ°¥Àâ±Àâ°¦Àâ±Àâ°§Àâ±Àâ°¨Àâ±Àâ°©Àâ±Àâ°ªÀâ±Àâ°«Àâ±Àâ°¬Àâ±Àâ°­Àâ±À" \o
    "â°®Àâ±Àâ°¯Àâ±Àâ± Àâ±¡Àâ±¢ÀÉ«ÀÀâ±£Àáµ½Àâ±¤ÀÉ½ÀÀâ±§Àâ±¨Àâ±©Àâ±ªÀâ±«Àâ±¬Àâ±­ÀÉÀÀâ±®ÀÉ±ÀÀâ±¯ÀÉÀÀâ±°ÀÉÀÀâ±²Àâ±³Àâ±µÀâ±¶Àâ±¾ÀÈ¿ÀÀâ±¿ÀÉÀÀâ²Àâ²Àâ²Àâ²Àâ²Àâ²Àâ²Àâ²Àâ²Àâ²Àâ²Àâ²Àâ²Àâ²Àâ²Àâ²Àâ²Àâ²Àâ²Àâ²Àâ²Àâ²Àâ²Àâ²Àâ²Àâ²Àâ²Àâ²Àâ²Àâ²À" \o
    "â²Àâ²Àâ² Àâ²¡Àâ²¢Àâ²£Àâ²¤Àâ²¥Àâ²¦Àâ²§Àâ²¨Àâ²©Àâ²ªÀâ²«Àâ²¬Àâ²­Àâ²®Àâ²¯Àâ²°Àâ²±Àâ²²Àâ²³Àâ²´Àâ²µÀâ²¶Àâ²·Àâ²¸Àâ²¹Àâ²ºÀâ²»Àâ²¼Àâ²½Àâ²¾Àâ²¿Àâ³Àâ³Àâ³Àâ³Àâ³Àâ³Àâ³Àâ³Àâ³Àâ³Àâ³Àâ³Àâ³Àâ³Àâ³Àâ³Àâ³Àâ³Àâ³Àâ³Àâ³Àâ³Àâ³Àâ³Àâ³Àâ³Àâ³Àâ³Àâ³Àâ³À" \o
    "â³Àâ³Àâ³ Àâ³¡Àâ³¢Àâ³£Àâ³«Àâ³¬Àâ³­Àâ³®Àâ³²Àâ³³ÀêÀêÀêÀêÀêÀêÀêÀêÀêÀêÀêÀêÀêÀêÀêÀêÀêÀêÀêÀêÀêÀêÀêÀêÀêÀêÀêÀêÀêÀêÀêÀêÀê Àê¡Àê¢Àê£Àê¤Àê¥Àê¦Àê§Àê¨Àê©ÀêªÀê«Àê¬Àê­ÀêÀêÀêÀêÀêÀêÀ" \o
    "êÀêÀêÀêÀêÀêÀêÀêÀêÀêÀêÀêÀêÀêÀêÀêÀêÀêÀêÀêÀêÀêÀê¢Àê£Àê¤Àê¥Àê¦Àê§Àê¨Àê©ÀêªÀê«Àê¬Àê­Àê®Àê¯Àê²Àê³Àê´ÀêµÀê¶Àê·Àê¸Àê¹ÀêºÀê»Àê¼Àê½Àê¾Àê¿ÀêÀêÀêÀêÀêÀêÀêÀêÀêÀêÀêÀêÀêÀêÀ" \o
    "êÀêÀêÀêÀêÀêÀêÀêÀêÀêÀêÀêÀêÀêÀêÀêÀêÀêÀê Àê¡Àê¢Àê£Àê¤Àê¥Àê¦Àê§Àê¨Àê©ÀêªÀê«Àê¬Àê­Àê®Àê¯Àê¹ÀêºÀê»Àê¼Àê½Àáµ¹Àê¾Àê¿ÀêÀêÀêÀêÀêÀêÀêÀêÀêÀêÀêÀÉ¥ÀÀêÀêÀêÀêÀêÀêÀêÀêÀêÀêÀ" \o
    "êÀêÀêÀêÀê Àê¡Àê¢Àê£Àê¤Àê¥Àê¦Àê§Àê¨Àê©ÀêªÀÉ¦ÀÀê«ÀÉÀÀê¬ÀÉ¡ÀÀê­ÀÉ¬ÀÀê®ÀÉªÀÀê°ÀÊÀÀê±ÀÊÀÀê²ÀÊÀÀê³Àê­Àê´ÀêµÀê¶Àê·Àê¸Àê¹ÀêºÀê»Àê¼Àê½Àê¾Àê¿ÀêÀêÀêÀêÀêÀêÀêÀÊÀÀêÀá¶ÀêÀêÀêÀêÀêÀêÀêÀêÀêÀêÀ" \o
    "êµÀê¶Àï¼¡Àï½Àï¼¢Àï½Àï¼£Àï½Àï¼¤Àï½Àï¼¥Àï½Àï¼¦Àï½Àï¼§Àï½Àï¼¨Àï½Àï¼©Àï½Àï¼ªÀï½Àï¼«Àï½Àï¼¬Àï½Àï¼­Àï½Àï¼®Àï½Àï¼¯Àï½Àï¼°Àï½Àï¼±Àï½Àï¼²Àï½Àï¼³Àï½Àï¼´Àï½Àï¼µÀï½Àï¼¶Àï½Àï¼·Àï½Àï¼¸Àï½Àï¼¹Àï½Àï¼ºÀï½Àðð¨ðð©ððªðð«ðð¬" \o
    "ðð­ðð®ðð¯ðð°ðð±ðð²ðð³ðð´ððµðð¶ðð·ðð¸ðð¹ððºðð»ðð¼ðð½ðð¾ðð¿ððððððððððððððððð ðð¡ðð¢ðð£ðð¤ð" \o
    "ð¥ðð¦ðð§ðð°ðð±ðð²ðð³ðð´ððµðð¶ðð·ðð¸ð ð¹ð¡ðºð¢ð»ð£ð¼ð¤ð½ð¥ð¾ð¦ð¿ð§ðð¨ðð©ððªðð«ðð¬ðð­ðð®ðð¯ðð°ðð±ðð²ðð³ðð´" \o
    "ððµðð¶ðð·ðð¸ðð¹ððºðð»ð°ðð±ðð²ðð³ðð´ððµðð¶ðð·ðð¸ðð¹ð ðºð¡ð¼ð£ð½ð¤ð¾ð¥ð¿ð¦ðð§ðð¨ðð©ððªðð«ðð¬ðð­ðð®ðð¯ðð°" \o
    "ðð±ðð³ðð´ððµðð¶ðð·ðð¸ðð¹ðð»ðð¼ð²ð³ð²ð³ð²ð³ð²ð³ð²ð³ð²ð³ð²ð³ð²ð³ð²ð³ð²ð³ð²ð³ð²ð³ð²ð³ð²ð³ð²ð³ð²ð³ð²ð³ð²ð³ð²ð³ð²ð³ð²ð³ð²ð³" \o
    "ð²ð³ð²ð³ð²ð³ð²ð³ð²ð³ð²ð³ð²ð³ð²ð³ð²ð³ð²ð³ð² ð³ ð²¡ð³¡ð²¢ð³¢ð²£ð³£ð²¤ð³¤ð²¥ð³¥ð²¦ð³¦ð²§ð³§ð²¨ð³¨ð²©ð³©ð²ªð³ªð²«ð³«ð²¬ð³¬ð²­ð³­ð²®ð³®ð²¯ð³¯ð²°ð³°ð²±ð³±ð²²ð³²ð¢ ð£ð¢¡ð£ð¢¢ð£" \o
    "ð¢£ð£ð¢¤ð£ð¢¥ð£ð¢¦ð£ð¢§ð£ð¢¨ð£ð¢©ð£ð¢ªð£ð¢«ð£ð¢¬ð£ð¢­ð£ð¢®ð£ð¢¯ð£ð¢°ð£ð¢±ð£ð¢²ð£ð¢³ð£ð¢´ð£ð¢µð£ð¢¶ð£ð¢·ð£ð¢¸ð£ð¢¹ð£ð¢ºð£ð¢»ð£ð¢¼ð£ð¢½ð£ð¢¾ð£ð¢¿ð£ð¹ð¹ ð¹ð¹¡ð¹ð¹¢" \o
    "ð¹ð¹£ð¹ð¹¤ð¹ð¹¥ð¹ð¹¦ð¹ð¹§ð¹ð¹¨ð¹ð¹©ð¹ð¹ªð¹ð¹«ð¹ð¹¬ð¹ð¹­ð¹ð¹®ð¹ð¹¯ð¹ð¹°ð¹ð¹±ð¹ð¹²ð¹ð¹³ð¹ð¹´ð¹ð¹µð¹ð¹¶ð¹ð¹·ð¹ð¹¸ð¹ð¹¹ð¹ð¹ºð¹ð¹»ð¹ð¹¼ð¹ð¹½ð¹ð¹¾ð¹ð¹¿ð¤ð¤¢ð¤ð¤£ð¤ð¤¤" \o
    "ð¤ð¤¥ð¤ð¤¦ð¤ð¤§ð¤ð¤¨ð¤ð¤©ð¤ð¤ªð¤ð¤«ð¤ð¤¬ð¤ð¤­ð¤ð¤®ð¤ð¤¯ð¤ð¤°ð¤ð¤±ð¤ð¤²ð¤ð¤³ð¤ð¤´ð¤ð¤µð¤ð¤¶ð¤ð¤·ð¤ð¤¸ð¤ð¤¹ð¤ð¤ºð¤ð¤»ð¤ð¤¼ð¤ð¤½ð¤ð¤¾ð¤ð¤¿ð¤ð¥ð¤ð¥ð¤ ð¥ð¤¡ð¥"

LowerPad == Ch(HighChars, 64)

LowerCount == Len(LowerTable) \div 8

\* unicode.ToLower of the rune r (its UTF-8 bytes)
LowerOf(r) ==
    LET key == r \o SubSeq(LowerPad \o LowerPad \o LowerPad, 1, 4 - Len(r))
        hits == {k \in 0..(LowerCount - 1) : Slice(LowerTable, 8 * k, 8 * k + 4) = key}
    IN IF hits = {} THEN r
       ELSE LET v == Slice(LowerTable, 8 * (CHOOSE k \in hits : TRUE) + 4, 8 * (CHOOSE k \in hits : TRUE) + 8)
            IN IF Ch(v, 1) = LowerPad THEN Slice(v, 0, 1)
               ELSE IF Ch(v, 2) = LowerPad THEN Slice(v, 0, 2)
               ELSE IF Ch(v, 3) = LowerPad THEN Slice(v, 0, 3)
               ELSE v

\* the bytes 0x80 to 0xFE (0xFF stands for the back-quote, BQ)
HighSet == {Ch(HighChars, k) : k \in 0..126}

ByteCode(c) == 128 + HighCode(c)

\* the byte at index j of s is a continuation byte in lo..hi
ContIn(s, j, lo, hi) == j < Len(s) /\ Ch(s, j) \in HighSet /\ ByteCode(Ch(s, j)) \in lo..hi

\* utf8.DecodeRuneInString at a byte >= 0x80: the width of the valid
\* encoded rune starting at index i, 0 if the byte starts no valid rune
\* the first byte's range and the ranges of its continuation bytes, one row
\* per valid UTF-8 encoding form (the Unicode table 3-7 that Go follows)
UTF8Rows ==
    {<<194..223, <<<<128, 191>>>>>>,
     <<{224}, <<<<160, 191>>, <<128, 191>>>>>>,
     <<(225..236) \cup (238..239), <<<<128, 191>>, <<128, 191>>>>>>,
     <<{237}, <<<<128, 159>>, <<128, 191>>>>>>,
     <<{240}, <<<<144, 191>>, <<128, 191>>, <<128, 191>>>>>>,
     <<241..243, <<<<128, 191>>, <<128, 191>>, <<128, 191>>>>>>,
     <<{244}, <<<<128, 143>>, <<128, 191>>, <<128, 191>>>>>>}

RuneLen(s, i) ==
    LET ok == {rw \in UTF8Rows :
                 /\ ByteCode(Ch(s, i)) \in rw[1]
                 /\ \A k \in 1..Len(rw[2]) : ContIn(s, i + k, rw[2][k][1], rw[2][k][2])}
    IN IF ok = {} THEN 0 ELSE 1 + Len((CHOOSE rw \in ok : TRUE)[2])

\* the UTF-8 bytes of utf8.RuneError (U+FFFD)
RuneErrorBytes == "ï¿½"

\* the width of the rune at index i of s: 1 for a byte below 0x80, 0 for a
\* byte that starts no valid rune
RuneW(s, i) == IF Ch(s, i) \notin HighSet THEN 1 ELSE RuneLen(s, i)

\* strings.ToLower from index i, with n the width of the rune there
RECURSIVE ToLowerFrom(_, _), LowerStep(_, _, _)
LowerStep(s, i, n) ==
    (IF n = 0 THEN RuneErrorBytes
     ELSE IF n = 1 THEN (IF Ch(s, i) \in Upper THEN ToLowerMap[Ch(s, i)] ELSE Ch(s, i))
     ELSE LowerOf(Slice(s, i, i + n)))
    \o ToLowerFrom(s, i + (IF n = 0 THEN 1 ELSE n))

ToLowerFrom(s, i) ==
    IF i >= Len(s) THEN "" ELSE LowerStep(s, i, RuneW(s, i))

\* strings.ToLower: every rune by unicode.ToLower; a byte that starts no
\* valid UTF-8 rune becomes U+FFFD
ToLower(s) ==
    IF \A k \in 0..(Len(s) - 1) : Ch(s, k) \notin HighSet THEN AsciiLower(s)
    ELSE ToLowerFrom(s, 0)

AllIn(s, cs) == \A i \in 0..(Len(s) - 1) : Ch(s, i) \in cs

\* an optional sign followed by one or more decimal digits
IsSignedDigits(v) ==
    LET body == IF Len(v) > 0 /\ Ch(v, 0) \in {"+", "-"} THEN Tail(v) ELSE v
    IN Len(body) > 0 /\ AllIn(body, Digits)

DigitRank(c) == CHOOSE k \in 0..9 : Ch("0123456789", k) = c

HexLetters == {"a", "b", "c", "d", "e", "f", "A", "B", "C", "D", "E", "F"}

HexRank(c) == CHOOSE k \in 0..15 : Ch("0123456789abcdef", k) = AsciiLower(c)

RECURSIVE StripLeadingZeros(_)
StripLeadingZeros(d) == IF Len(d) > 0 /\ Ch(d, 0) = "0" THEN StripLeadingZeros(Tail(d)) ELSE d

RECURSIVE NoUnderscore(_)
NoUnderscore(s) ==
    IF s = "" THEN "" ELSE (IF Ch(s, 0) = "_" THEN "" ELSE Ch(s, 0)) \o NoUnderscore(Tail(s))

\* a <= b for two digit strings of the same length
RECURSIVE DigitsLeq(_, _)
DigitsLeq(a, b) ==
    \/ a = ""
    \/ DigitRank(Ch(a, 0)) < DigitRank(Ch(b, 0))
    \/ (Ch(a, 0) = Ch(b, 0) /\ DigitsLeq(Tail(a), Tail(b)))

RECURSIVE DigitsVal(_)
DigitsVal(d) == IF d = "" THEN 0 ELSE DigitsVal(SubSeq(d, 1, Len(d) - 1)) * 10 + DigitRank(Ch(d, Len(d) - 1))


\* strconv.Atoi with Go's 64-bit int: an optional sign, then decimal digits
\* only, of value in [-2^63, 2^63 - 1]
IsAtoi(v) ==
    /\ IsSignedDigits(v)
    /\ LET m == StripLeadingZeros(IF Ch(v, 0) \in {"+", "-"} THEN Tail(v) ELSE v)
       IN \/ Len(m) < 19
          \/ /\ Len(m) = 19
             /\ DigitsLeq(m, IF Ch(v, 0) = "-" THEN "9223372036854775808" ELSE "9223372036854775807")

\* strconv's underscoreOK: an underscore only between two digits or between
\* a base prefix and a digit
RECURSIVE UsScan(_, _, _, _)
UsScan(s, i, saw, hex) ==
    IF i >= Len(s) THEN saw # "_"
    ELSE IF Ch(s, i) \in Digits \/ (hex /\ Ch(s, i) \in HexLetters) THEN UsScan(s, i + 1, "0", hex)
    ELSE IF Ch(s, i) = "_" THEN saw = "0" /\ UsScan(s, i + 1, "_", hex)
    ELSE saw # "_" /\ UsScan(s, i + 1, "!", hex)

underscoreOK(s) ==
    LET t == IF Len(s) >= 1 /\ Ch(s, 0) \in {"+", "-"} THEN Tail(s) ELSE s
    IN IF Len(t) >= 2 /\ Ch(t, 0) = "0" /\ AsciiLower(Ch(t, 1)) \in {"b", "o", "x"}
       THEN UsScan(t, 2, "0", AsciiLower(Ch(t, 1)) = "x")
       ELSE UsScan(t, 0, "^", FALSE)

\* strconv's readFloat on the unsigned text b, required to consume all of
\* it: [ok, hex, mant, exp] with the mantissa and exponent texts
FloatParts(b) ==
    LET hex == Len(b) > 2 /\ Ch(b, 0) = "0" /\ AsciiLower(Ch(b, 1)) = "x"
        st == IF hex THEN 2 ELSE 0
        dch == IF hex THEN Digits \cup HexLetters ELSE Digits
        ends == {j \in st..Len(b) : j = Len(b) \/ Ch(b, j) \notin (dch \cup {"_", "."})}
        j == CHOOSE j \in ends : \A j2 \in ends : j <= j2
        mant == Slice(b, st, j)
        ex == Slice(b, j + 1, Len(b))
        exBody == IF Len(ex) > 0 /\ Ch(ex, 0) \in {"+", "-"} THEN Tail(ex) ELSE ex
    IN [ok |-> /\ Cardinality({k \in 0..(Len(mant) - 1) : Ch(mant, k) = "."}) <= 1
               /\ \E k \in 0..(Len(mant) - 1) : Ch(mant, k) \in dch
               /\ IF j = Len(b) THEN ~hex
                  ELSE /\ AsciiLower(Ch(b, j)) = (IF hex THEN "p" ELSE "e")
                       /\ Len(exBody) > 0 /\ Ch(exBody, 0) \in Digits
                       /\ AllIn(exBody, Digits \cup {"_"}),
        hex |-> hex, mant |-> mant, exp |-> IF j = Len(b) THEN "" ELSE ex]

\* the exponent readFloat accumulates: a digit is added only while e < 10000,
\* so e holds the first five significant digits at most
ExpValue(x) ==
    LET ds == StripLeadingZeros(IF Len(x) > 0 /\ Ch(x, 0) \in {"+", "-"} THEN Tail(x) ELSE x)
    IN (IF Len(x) > 0 /\ Ch(x, 0) = "-" THEN -1 ELSE 1) * DigitsVal(IF Len(ds) > 5 THEN SubSeq(ds, 1, 5) ELSE ds)

\* the decimal digits of (2^54 - 1) * 2^970, the midpoint between the largest
\* float64 and 2^1024: a value at or above it rounds (half to even) to 2^1024
MaxFloatMidDigits == "179769313486231580793728971405303415079934132710037826936173778980444968292764750946649017977587207096330286416692887910946555547851940402630657488671505820681908902000708383676273854845817711531764475730270069855571366959622842914819860834936475292719074168444365510704342711559699508093042880177904174497792"

\* the significant digits sig, read as 0.sig * 10^309, are >= the midpoint
DecAtLeastMid(sig) ==
    LET n == IF Len(sig) < 309 THEN Len(sig) ELSE 309
        a == SubSeq(sig, 1, n)
        b == SubSeq(MaxFloatMidDigits, 1, n)
    IN IF a # b THEN ~DigitsLeq(a, b)
       ELSE Len(sig) >= 309 \/ AllIn(Slice(MaxFloatMidDigits, n, 309), {"0"})

\* ParseFloat's ErrRange for a decimal mantissa m and exponent x: the
\* correctly rounded value is beyond the largest float64
DecOverflow(m, x) ==
    LET dot == FirstFrom(m, 0, ".")
        ip == IF dot < 0 THEN m ELSE Slice(m, 0, dot)
        fp == IF dot < 0 THEN "" ELSE Slice(m, dot + 1, Len(m))
        sig == StripLeadingZeros(ip \o fp)
        e == IF x = "" THEN 0 ELSE ExpValue(x)
        E == IF StripLeadingZeros(ip) # "" THEN Len(StripLeadingZeros(ip)) - 1 + e
             ELSE e - (Len(fp) - Len(StripLeadingZeros(fp))) - 1
    IN sig # "" /\ (E > 308 \/ (E = 308 /\ DecAtLeastMid(sig)))

BitLen(d) == CHOOSE k \in 1..4 : 2^(k - 1) <= HexRank(d) /\ HexRank(d) < 2^k

\* the four bits of a hexadecimal digit
HexBits(c) == Only([k \in {HexRank(c)} |->
    (IF k >= 8 THEN "1" ELSE "0") \o (IF k % 8 >= 4 THEN "1" ELSE "0") \o
    (IF k % 4 >= 2 THEN "1" ELSE "0") \o (IF k % 2 = 1 THEN "1" ELSE "0")])

RECURSIVE HexDigitsBits(_)
HexDigitsBits(d) == IF d = "" THEN "" ELSE HexBits(Ch(d, 0)) \o HexDigitsBits(Tail(d))

\* ParseFloat's ErrRange for a hexadecimal mantissa m and binary exponent
\* x: the correctly rounded value is 2^1024 or more, i.e. the leading bit
\* lies at 2^1024 or above, or at 2^1023 with the 54 leading bits all ones
HexOverflow(m, x) ==
    LET dot == FirstFrom(m, 0, ".")
        ip == StripLeadingZeros(IF dot < 0 THEN m ELSE Slice(m, 0, dot))
        fp == IF dot < 0 THEN "" ELSE Slice(m, dot + 1, Len(m))
        fps == StripLeadingZeros(fp)
        e == ExpValue(x)
        lead == IF ip # "" THEN 4 * (Len(ip) - 1) + BitLen(Ch(ip, 0)) - 1 + e
                ELSE e - 4 * (Len(fp) - Len(fps) + 1) + BitLen(Ch(fps, 0)) - 1
        bits == StripLeadingZeros(HexDigitsBits(ip \o fp))
    IN /\ (ip # "" \/ fps # "")
       /\ \/ lead >= 1024
          \/ lead = 1023 /\ Len(bits) >= 54 /\ AllIn(SubSeq(bits, 1, 54), {"1"})

\* strconv.ParseFloat(v, 64) returns err == nil: inf or infinity after an
\* optional sign, or nan, in any case; otherwise a decimal or hexadecimal
\* literal (underscores as in Go) whose value does not overflow float64
IsParseFloat(v) ==
    LET b == IF Len(v) > 0 /\ Ch(v, 0) \in {"+", "-"} THEN Tail(v) ELSE v
        fp == FloatParts(b)
    IN \/ AsciiLower(v) = "nan"
       \/ AsciiLower(b) \in {"inf", "infinity"}
       \/ /\ Len(b) > 0 /\ fp.ok
          /\ Contains(v, "_") => underscoreOK(v)
          /\ IF fp.hex THEN ~HexOverflow(NoUnderscore(fp.mant), NoUnderscore(fp.exp))
             ELSE ~DecOverflow(NoUnderscore(fp.mant), NoUnderscore(fp.exp))

isSimpleIdent(s) ==
    /\ s # ""
    /\ Ch(s, 0) \in Lower \cup Upper \cup {"_", "$"}
    /\ AllIn(s, Lower \cup Upper \cup Digits \cup {"_", "$"})

\* a variant that types every number as float64
inferTypeFromValue_NumbersAsFloat(value) ==
    IF IsParseFloat(TrimSpace(value)) THEN "float64" ELSE "interface{}"

inferTypeFromValue(value) ==
    LET val == TrimSpace(value)
        lowerVal == ToLower(val)
    IN
    IF val \in {"", "\"\"", "''", BQ \o BQ} THEN "string"
    ELSE IF \/ HasPrefix(val, "\"") /\ HasSuffix(val, "\"")
            \/ HasPrefix(val, "'") /\ HasSuffix(val, "'")
            \/ HasPrefix(val, BQ) /\ HasSuffix(val, BQ)
    THEN "string"
    ELSE IF val \in {"true", "false"} THEN "bool"
    ELSE IF IsAtoi(val) THEN "int"
    ELSE IF IsParseFloat(val) THEN "float64"
    ELSE IF HasPrefix(val, "[") THEN "[]interface{}"
    ELSE IF HasPrefix(val, "{") THEN "map[string]interface{}"
    ELSE IF val \in {"null", "undefined"} THEN "interface{}"
    ELSE IF HasSuffix(lowerVal, "s") /\ ~HasSuffix(lowerVal, "ss") /\ Len(lowerVal) > 3 /\ isSimpleIdent(val)
    THEN "[]interface{}"
    ELSE IF Contains(lowerVal, "items") \/ Contains(lowerVal, "list") \/
            Contains(lowerVal, "data") \/ Contains(lowerVal, "array")
    THEN "[]interface{}"
    ELSE "interface{}"

\* FindAllStringSubmatchIndex of a pattern given by its anchored matcher
RECURSIVE StateMatches(_, _)
StateMatches(s, start) ==
    LET is == {i \in start..(Len(s) - 1) : StateMatchAt(s, i).ok}
    IN IF is = {} THEN <<>>
       ELSE LET i == CHOOSE i \in is : \A i2 \in is : i <= i2
                m == StateMatchAt(s, i)
            IN <<m>> \o StateMatches(s, m.end)

extractUseStateVars(source) ==
    LET ms == StateMatches(source, 0) IN
    [k \in 1..Len(ms) |->
        LET m == ms[k]
            init == TrimSpace(m.init)
        IN [name |-> m.name, setter |-> m.setter, init |-> init,
            type |-> inferTypeFromValue(init), line |-> LineOf(source, m.start)]]

DerivedOps == <<[op |-> "filter", rt |-> "[]interface{}"], [op |-> "map", rt |-> "[]interface{}"],
                [op |-> "find", rt |-> "interface{}"], [op |-> "some", rt |-> "bool"],
                [op |-> "every", rt |-> "bool"], [op |-> "reduce", rt |-> "interface{}"],
                [op |-> "sort", rt |-> "[]interface{}"], [op |-> "slice", rt |-> "[]interface{}"]>>

\* `const\s+(\w+)\s*=\s*(\w+)\.OP\s*\(` anchored at i
DerivedMatchAt(s, i, op) ==
    LET a == i + 5
        b == WsEnd(s, a)
        c == WordEnd(s, b)
        d == WsEnd(s, c)
        e == WsEnd(s, d + 1)
        f == WordEnd(s, e)
        g == WsEnd(s, f + 1 + Len(op))
    IN IF /\ At(s, i, "const") /\ b > a /\ c > b /\ At(s, d, "=") /\ f > e
          /\ At(s, f, "." \o op) /\ At(s, g, "(")
       THEN [ok |-> TRUE, name |-> Slice(s, b, c), src |-> Slice(s, e, f), start |-> i,
             srcEnd |-> f, end |-> g + 1]
       ELSE NoMatch

RECURSIVE DerivedMatches(_, _, _)
DerivedMatches(s, start, op) ==
    LET is == {i \in start..(Len(s) - 1) : DerivedMatchAt(s, i, op).ok}
    IN IF is = {} THEN <<>>
       ELSE LET i == CHOOSE i \in is : \A i2 \in is : i <= i2
                m == DerivedMatchAt(s, i, op)
            IN <<m>> \o DerivedMatches(s, m.end, op)

RECURSIVE findMatchingParenLoop(_, _, _)
findMatchingParenLoop(s, i, depth) ==
    IF i >= Len(s) THEN -1
    ELSE IF Ch(s, i) = "(" THEN findMatchingParenLoop(s, i + 1, depth + 1)
    ELSE IF Ch(s, i) = ")"
         THEN IF depth - 1 = 0 THEN i + 1 ELSE findMatchingParenLoop(s, i + 1, depth - 1)
    ELSE findMatchingParenLoop(s, i + 1, depth)

findMatchingParen(s, start) == findMatchingParenLoop(s, start, 1)

Max(a, b) == IF a > b THEN a ELSE b

\* the sequences listing a finite set once each, in every order
Perms(S) ==
    {f \in [1..Cardinality(S) -> S] :
        \A i, j \in 1..Cardinality(S) : i # j => f[i] # f[j]}

\* the orders in which ranging over the stateNames map can visit a set of
\* names: Go's map iteration order is unspecified, so every order
SetToSeq(S) == Perms(S)

\* the heuristic that skips a match with a [ in the 20 bytes before it
DestructSkip(s, m) == Contains(Slice(s, Max(0, m.start - 20), m.start), "[")

\* a variant that always adds the source collection to the dependencies
DerivedOf_AllSources(s, stateNames, m, o) ==
    LET exprEnd == findMatchingParen(s, m.srcEnd)
        fullExpr == IF exprEnd > m.srcEnd THEN Slice(s, m.start, exprEnd) ELSE ""
    IN {[name |-> m.name, expr |-> fullExpr, source |-> m.src, op |-> o.op,
         resultType |-> o.rt, deps |-> d \o <<m.src>>, line |-> LineOf(s, m.start)] :
        d \in SetToSeq({n \in stateNames : Contains(fullExpr, n)})}

\* the DerivedVariable of one match: one record per order of the range
\* over stateNames
DerivedOf(s, stateNames, m, o) ==
    LET exprEnd == findMatchingParen(s, m.srcEnd)
        fullExpr == IF exprEnd > m.srcEnd THEN Slice(s, m.start, exprEnd) ELSE ""
    IN {[name |-> m.name, expr |-> fullExpr, source |-> m.src, op |-> o.op,
         resultType |-> o.rt, deps |-> d \o (IF m.src \in stateNames THEN <<m.src>> ELSE <<>>),
         line |-> LineOf(s, m.start)] :
        d \in SetToSeq({n \in stateNames : Contains(fullExpr, n)})}

\* the sequences taking their k-th element from the k-th set of cs
RECURSIVE SeqChoices(_)
SeqChoices(cs) == IF cs = <<>> THEN {<<>>} ELSE {<<x>> \o r : x \in Head(cs), r \in SeqChoices(Tail(cs))}

RECURSIVE DerivedForOps(_, _, _)
DerivedForOps(s, stateNames, k) ==
    IF k > Len(DerivedOps) THEN {<<>>}
    ELSE LET o == DerivedOps[k]
             ms == DerivedMatches(s, 0, o.op)
             kept == SelectSeq(ms, LAMBDA m : ~DestructSkip(s, m))
         IN {a \o b : a \in SeqChoices([i \in 1..Len(kept) |-> DerivedOf(s, stateNames, kept[i], o)]),
                      b \in DerivedForOps(s, stateNames, k + 1)}

\* the set of lists extractDerivedVars can return (one per iteration order)
extractDerivedVars(source, stateVars) ==
    DerivedForOps(source, {stateVars[i].name : i \in 1..Len(stateVars)}, 1)

(* ---------------------------------------------------------------------- *)
(* Parser.Parse                                                            *)
(* ---------------------------------------------------------------------- *)

\* findComponentEnd's stand-in for "no next component"
NoNextComponentLine == 999999

findComponentEnd(comps, idx) ==
    IF idx + 1 <= Len(comps) THEN comps[idx + 1].line ELSE NoNextComponentLine

\* the loop of Parse that attaches state and derived variables by line range
Associate(comps, svs, dvs) ==
    [i \in 1..Len(comps) |->
        LET compStart == comps[i].line
            compEnd == findComponentEnd(comps, i)
        IN [comps[i] EXCEPT
              !.stateVars = SelectSeq(svs, LAMBDA v : v.line >= compStart /\ v.line < compEnd),
              !.derivedVars = SelectSeq(dvs, LAMBDA v : v.line >= compStart /\ v.line < compEnd)]]

\* the top-level loop of Parse
RECURSIVE ParseLoop(_, _, _)
ParseLoop(P, imps, comps) ==
    IF P.spin \/ isAtEnd(P) THEN [p |-> P, imps |-> imps, comps |-> comps]
    ELSE Only([P1 \in {skipWhitespace(P)} |->
         IF isAtEnd(P1) THEN [p |-> P1, imps |-> imps, comps |-> comps]
         ELSE IF checkIdent(P1, "import")
         THEN Only([r \in {parseImport(P1)} |->
                  ParseLoop(r.p, IF r.imp.kind = "nil" THEN imps ELSE Append(imps, r.imp), comps)])
         ELSE IF checkIdent(P1, "function") \/ checkIdent(P1, "const") \/ checkIdent(P1, "export")
         THEN Only([r \in {parseComponent(P1)} |->
                  ParseLoop(r.p, imps, IF r.c.kind = "nil" THEN comps ELSE Append(comps, r.c))])
         ELSE \* unknown tokens (and whitespace) are skipped up to the next
              \* import/function/const/export or the end
              LET ts == P1.toks IN
              ParseLoop([P1 EXCEPT !.pos = FirstIdx(ts, P1.pos, LAMBDA k :
                            TokEnd(ts, k) \/ (ts[k + 1].type = "Ident" /\
                                              ts[k + 1].value \in {"import", "function", "const", "export"}))],
                        imps, comps)])

\* NewParserWithSource(tokens, source).Parse(): the set of results it can
\* return (the derived variables' DependsOn order varies); spin = TRUE:
\* Parse does not return
Parse(ts, source) ==
    Only([svs \in {IF source # "" THEN extractUseStateVars(source) ELSE <<>>} |->
    Only([r \in {ParseLoop(NewParser(ts), <<>>, <<>>)} |->
        {[imports |-> r.imps, components |-> Associate(r.comps, svs, dvs),
          warns |-> r.p.warns, sugs |-> r.p.sugs, spin |-> r.p.spin] :
         dvs \in IF source # "" THEN extractDerivedVars(source, svs) ELSE {<<>>}}])])

(* ---------------------------------------------------------------------- *)
(* The front end as main.go drives it: Tokenize, then Parse                *)
(* ---------------------------------------------------------------------- *)

ParseHeads ==
    {"function C({x}){ return ",
     "const C = ({ a, ...rest }) => { return ",
     "function C({ a: b }){ return ",
     "import { a, * } from 'm'\nfunction C(){ return ",
     "import React, { useState as uS } from 'react'\nexport default function C({ t = 'x', n = f(1, 2) }) {\n  return (",
     "function C() {\n  const [count, setCount] = useState(0)\n  useEffect(f)\n  return "}

ParseBodies ==
    {"<div>{x}</div>; }",
     "<div {x}>a</div> }",
     "<input value=5/> }",
     "<ul>{a && <b></i>}</ul> }",
     "<a href=\"h\" {...p}></b> }",
     "<p>{c ? <X/> : <Y></Z>}</p> }",
     "<>{xs.map((x, i) => (<li>{x}</li>))}</> }",
     "null; }\nconst MAX = 5;\nfunction B() { return <div/>; }"}

C9Input == "function C({x}){ return <div>{x}</div>; }"

C11Inputs ==
    {"function A() { return null; }\nfunction B() { return <div/>; }",
     "const MAX = 5;\nfunction B() { return <div/>; }"}

C12Input == "function C() {\n  const users = useState([])\n  useEffect(f)\n  return <div/> }"

ParseInputs == {h \o b : h \in ParseHeads, b \in ParseBodies} \cup {C9Input} \cup C11Inputs \cup {C12Input}

PipeInit ==
    /\ LexIdle /\ ExtIdle /\ AssocIdle /\ ExprIdle /\ DetIdle /\ TypeIdle
    /\ input \in ParseInputs
    /\ toks = <<>>
    /\ pres = "none"
    /\ phase = "lex"

\* tokens := parser.NewLexer(input).Tokenize()
PipeTokenize ==
    /\ phase = "lex"
    /\ toks' = Tokenize(input)
    /\ phase' = "parse"
    /\ UNCHANGED <<input, pres>>
    /\ UNCHANGED <<lexVars, extVars, assocVars, exprVars, detVars, typeVars>>

\* result := parser.NewParserWithSource(tokens, input).Parse()
PipeParse ==
    /\ phase = "parse"
    /\ pres' \in Parse(toks, input)
    /\ phase' = "done"
    /\ UNCHANGED <<input, toks>>
    /\ UNCHANGED <<lexVars, extVars, assocVars, exprVars, detVars, typeVars>>

Next == PipeTokenize \/ PipeParse

Spec == PipeInit /\ [][Next]_vars

(* ---------------------------------------------------------------------- *)
(* The extraction functions on their own                                   *)
(* ---------------------------------------------------------------------- *)

CountStmt == "const [count, setCount] = useState(0)"
VisibleStmt == "const visible = items.filter(i => i.active)"

ExtPrefixes ==
    {"", "\n", "function C() {\n  ", "let a = 1;\n\n  ",
     "const [items, setItems] = useState([])\n",
     "const [items, setItems] = useState(0)\n",
     "const [items, setItems] = useState([])\n\n// a comment line\n",
     "const [a, setA] = useState(x => {\n  "}

ExtSuffixes ==
    {"", "\nconst done = tasks.filter(t => t.done)\n", "\n" \o VisibleStmt,
     "\nconst n = tasks.filter(t => t < count)\n})",
     "\nconst [q, setQ] = useState('')\nconst hits = items.filter(i => i.name.includes(q)).sort()"}

ExtOrderSrc == "function C() {\n  const [a, setA] = useState(0)\n  const [b, setB] = useState(0)\n  const v = a.filter(x => x > b) // )\n  return <div/> }"
C27Src == "const [items, setItems] = useState(0)\nuseEffect(() => {\n  const v = items.filter(i => i.on)\n})"

ExtInputs == {pre \o CountStmt \o suf : pre \in ExtPrefixes, suf \in ExtSuffixes}
             \cup {pre \o VisibleStmt : pre \in ExtPrefixes} \cup {C27Src, ExtOrderSrc}

ExtInit ==
    /\ LexIdle /\ PipeIdle /\ AssocIdle /\ ExprIdle /\ DetIdle /\ TypeIdle
    /\ esrc \in ExtInputs
    /\ esvs = <<>>
    /\ edvs = <<>>
    /\ ephase = "state"

\* allStateVars = extractUseStateVars(p.source)
ExtState ==
    /\ ephase = "state"
    /\ esvs' = extractUseStateVars(esrc)
    /\ ephase' = "derived"
    /\ UNCHANGED <<esrc, edvs>>
    /\ UNCHANGED <<lexVars, pipeVars, assocVars, exprVars, detVars, typeVars>>

\* allDerivedVars = extractDerivedVars(p.source, allStateVars)
ExtDerived ==
    /\ ephase = "derived"
    /\ edvs' \in extractDerivedVars(esrc, esvs)
    /\ ephase' = "done"
    /\ UNCHANGED <<esrc, esvs>>
    /\ UNCHANGED <<lexVars, pipeVars, assocVars, exprVars, detVars, typeVars>>

ExtNext == ExtState \/ ExtDerived

ExtSpec == ExtInit /\ [][ExtNext]_vars

(* ---------------------------------------------------------------------- *)
(* The association loop of Parse on its own                                *)
(* ---------------------------------------------------------------------- *)

\* line numbers, around findComponentEnd's 999999
AssocLineVals == {1, 2, 3, NoNextComponentLine - 1, NoNextComponentLine, NoNextComponentLine + 1}
\* numbers of lines of a source
AssocFileLines == {3, NoNextComponentLine + 1}
AssocMaxComps == 2
AssocMaxVars == 2

\* nondecreasing sequences of at most n line numbers not above last
LineSeqs(n, last) ==
    {sq \in UNION {[1..k -> {l \in AssocLineVals : l <= last}] : k \in 0..n} :
        \A i \in 1..(Len(sq) - 1) : sq[i] <= sq[i + 1]}

AssocInit ==
    /\ LexIdle /\ PipeIdle /\ ExtIdle /\ ExprIdle /\ DetIdle /\ TypeIdle
    /\ alines \in AssocFileLines
    /\ \E cl \in LineSeqs(AssocMaxComps, alines) \ {<<>>} :
          acomps = [i \in 1..Len(cl) |->
                      [kind |-> "Component", name |-> "C", line |-> cl[i],
                       stateVars |-> <<>>, derivedVars |-> <<>>]]
    /\ \E sl \in LineSeqs(AssocMaxVars, alines) :
          asvs = [i \in 1..Len(sl) |-> [name |-> i, line |-> sl[i]]]
    /\ \E dl \in LineSeqs(1, alines) :
          advs = [i \in 1..Len(dl) |-> [name |-> i, line |-> dl[i]]]
    /\ aout = <<>>
    /\ aphase = "assoc"

\* the loop over file.Components at the end of Parse
AssocRun ==
    /\ aphase = "assoc"
    /\ aout' = Associate(acomps, asvs, advs)
    /\ aphase' = "done"
    /\ UNCHANGED <<acomps, asvs, advs, alines>>
    /\ UNCHANGED <<lexVars, pipeVars, extVars, exprVars, detVars, typeVars>>

AssocNext == AssocRun

AssocSpec == AssocInit /\ [][AssocNext]_vars

(* ---------------------------------------------------------------------- *)
(* Event handlers (isEventHandler, parseEventHandler)                      *)
(* ---------------------------------------------------------------------- *)

isEventHandler(name) == HasPrefix(name, "on") /\ Len(name) > 2 /\ Ch(name, 2) \in Upper

\* `(set[A-Z]\w*)\s*\(` matches at i: [ok, name, end]
SetterAt(b, i) ==
    IF At(b, i, "set") /\ i + 3 < Len(b) /\ Ch(b, i + 3) \in Upper
    THEN LET w == WordEnd(b, i + 4)
             k == WsEnd(b, w)
         IN IF At(b, k, "(") THEN [ok |-> TRUE, name |-> Slice(b, i, w), end |-> k + 1] ELSE NoMatch
    ELSE NoMatch

\* FindAllStringSubmatch of the setter pattern from index i on: group 1 of
\* each leftmost match, the next search starting at the end of the last
RECURSIVE SetterScan(_, _)
SetterScan(b, i) ==
    LET is == {j \in i..(Len(b) - 1) : SetterAt(b, j).ok}
    IN IF is = {} THEN <<>>
       ELSE LET m == SetterAt(b, CHOOSE j \in is : \A j2 \in is : j <= j2)
            IN <<m.name>> \o SetterScan(b, m.end)

RECURSIVE AlnumEnd(_, _)
AlnumEnd(s, i) == IF i < Len(s) /\ Ch(s, i) \in Lower \cup Upper \cup Digits THEN AlnumEnd(s, i + 1) ELSE i

\* `\b([a-z][a-zA-Z0-9]*)\b` matches at i
IdentAt(b, i) ==
    /\ Ch(b, i) \in Lower
    /\ i = 0 \/ ~IsWordChar(Ch(b, i - 1))
    /\ AlnumEnd(b, i + 1) = Len(b) \/ ~IsWordChar(Ch(b, AlnumEnd(b, i + 1)))

RECURSIVE IdentScan(_, _)
IdentScan(b, i) ==
    LET is == {j \in i..(Len(b) - 1) : IdentAt(b, j)}
    IN IF is = {} THEN <<>>
       ELSE LET j == CHOOSE j \in is : \A j2 \in is : j <= j2
            IN <<Slice(b, j, AlnumEnd(b, j + 1))>> \o IdentScan(b, AlnumEnd(b, j + 1))

HandlerKeywords ==
    {"true", "false", "null", "undefined", "return", "if", "else", "const", "let",
     "var", "function", "new", "this", "event", "e", "target", "value"}

\* the StateVars loop: first occurrences, keywords and set-prefixed names left out
RECURSIVE HandlerStateVars(_, _)
HandlerStateVars(ids, seen) ==
    IF ids = <<>> THEN <<>>
    ELSE LET id == Head(ids) IN
         IF id \notin seen /\ id \notin HandlerKeywords /\ ~HasPrefix(id, "set")
         THEN <<id>> \o HandlerStateVars(Tail(ids), seen \cup {id})
         ELSE HandlerStateVars(Tail(ids), seen)

parseEventHandler(eventType, body, line) ==
    [kind |-> "EventHandler", eventType |-> eventType, body |-> body, line |-> line,
     isInline |-> Contains(body, "=>"),
     setterCalls |-> SetterScan(body, 0),
     stateVars |-> HandlerStateVars(IdentScan(body, 0), {})]

(* ---------------------------------------------------------------------- *)
(* parseExpression on its own: the parser stands on a {                    *)
(* ---------------------------------------------------------------------- *)

ExprConds == {"a", "x.y"}
ExprBodies == {"<b/>", "<b></i>", "(<b>t</b>)", "<b>{v}</b>"}
ExprForms(c, b) ==
    {"{" \o c \o " && " \o b \o "}",
     "{" \o c \o " ? " \o b \o " : <i/>}",
     "{" \o c \o ".map(x => " \o b \o ")}",
     "{" \o c \o ".map((x, i) => (" \o b \o "))}",
     "{" \o c \o " ? xs.map(x => " \o b \o ") : null}",
     "{" \o c \o "}"}
ExprTails == {"", "</p>"}
C13Raw == "a ? <X/> : b ? <Y/> : <Z/>"
C14Raw == "xs.map(x => (f(x)))"
C23Raw == "a ? b ? <X/> : <Y/> : <Z/>"
C26Raw == "x === 'a' ? <A/> : <B/>"
C28Raw == "a && b && <X/>"
C29Raw == "c ? <span>Due: {d}</span> : <b/>"
C30Raw == "c ? <A/> : d && <B/>"
HandlerBodies == {"() => setCount(count + 1)", "() => setSettings(settings)",
                  "e => setup(e.target.value)", "() => resetCount()",
                  "() => setOpen (!isOpen)", "toggle"}
ExprInputs == UNION {{f \o t : f \in ExprForms(c, b), t \in ExprTails} : c \in ExprConds, b \in ExprBodies}
              \cup {"{" \o r \o "}" : r \in {C13Raw, C14Raw, C23Raw, C26Raw, C28Raw, C29Raw, C30Raw}}
              \cup {"{" \o h \o "}" : h \in HandlerBodies}

\* attribute names given to the expression branch of parseAttribute
AttrNames == {"onClick", "onclick"}

ExprInit ==
    /\ LexIdle /\ PipeIdle /\ ExtIdle /\ AssocIdle /\ DetIdle /\ TypeIdle
    /\ \E text \in ExprInputs : xp = NewParser(Tokenize(text))
    /\ xexpr = "none"
    /\ xnode = "none"
    /\ xphase = "start"

\* Parser.parseExpression: match {, parseExpressionContent, then
\* analyzeExpression on the collected Expression
ExprParse ==
    /\ xphase = "start"
    /\ check(xp, "JSXExprOpen")
    /\ LET r == parseExpressionContent(adv(xp))
           a == analyzeExpression(r.p, r.n)
       IN /\ xexpr' = [raw |-> r.n.raw, line |-> r.n.line, pos |-> r.p.pos, toks |-> r.p.toks,
                     tern |-> TernarySplit(r.n.raw)]
          /\ xp' = a.p
          /\ xnode' = IF a.n.kind # "nil" THEN a.n ELSE r.n
    /\ xphase' = "done"
    /\ UNCHANGED <<lexVars, pipeVars, extVars, assocVars, detVars, typeVars>>

\* the expression branch of parseAttribute for an attribute named name:
\* parseExpressionContent after the {, then parseEventHandler when name is
\* an event handler name (xnode holds the EventHandler, kind "nil" if none)
ExprAttr ==
    /\ xphase = "start"
    /\ check(xp, "JSXExprOpen")
    /\ \E name \in AttrNames : \E e \in {parseExpressionContent(adv(xp))} :
          /\ xexpr' = [raw |-> e.n.raw, line |-> e.n.line, pos |-> e.p.pos, toks |-> e.p.toks,
                       tern |-> TernarySplit(e.n.raw)]
          /\ xp' = e.p
          /\ xnode' = IF isEventHandler(name) THEN parseEventHandler(name, e.n.raw, e.n.line)
                      ELSE [kind |-> "nil"]
    /\ xphase' = "attr"
    /\ UNCHANGED <<lexVars, pipeVars, extVars, assocVars, detVars, typeVars>>

ExprNext == ExprParse \/ ExprAttr

ExprSpec == ExprInit /\ [][ExprNext]_vars

(* ---------------------------------------------------------------------- *)
(* Pattern detector (internal/patterns). A DetectedPattern is the record   *)
(* [type, line, conf, svars, dvars]; conf is the Confidence in hundredths. *)
(* ---------------------------------------------------------------------- *)

\* Detector.addPattern: dropped when a record of the same Type and Line exists
addPattern(ps, p) ==
    IF \E k \in DOMAIN ps : ps[k].type = p.type /\ ps[k].line = p.line
    THEN ps ELSE Append(ps, p)

\* countLines(source[:i]) = strings.Count(source[:i], "\n") + 1
countLines(s, i) == LineOf(s, i)

PatRec(type, line, conf, svs, dvs) ==
    [type |-> type, line |-> line, conf |-> conf, svars |-> svs, dvars |-> dvs]

\* The regular expressions of the raw-source detectors. An item is
\* <<"lit", text>>, <<"cls", characters>> (a bracket class), <<"any">> (.*),
\* <<"ws">> (\s*) or <<"word">> (\w+); a pattern is a sequence of
\* alternatives, each a sequence of items, with its (?i) flag.
Lit(v) == <<"lit", v>>
Quote == <<"cls", {"\"", "'"}>>
Re(ci, alts) == [ci |-> ci, alts |-> alts]
Words(ci, ws) == Re(ci, [k \in 1..Len(ws) |-> <<Lit(ws[k])>>])

\* U+017F (long s) and U+212A (Kelvin sign) as UTF-8 bytes: under (?i) Go's
\* regexp folds them together with s, S and k, K
LongS == "Å¿"
Kelvin == "âª"

lowerCh(c) == IF c \in Upper THEN ToLowerMap[c] ELSE c

\* the end of one rune at index i of t that (?i) matches to the pattern
\* character p, -1 if none
FoldStep(t, i, p) ==
    IF i < Len(t) /\ lowerCh(Ch(t, i)) = lowerCh(p) THEN i + 1
    ELSE IF lowerCh(p) = "s" /\ At(t, i, LongS) THEN i + 2
    ELSE IF lowerCh(p) = "k" /\ At(t, i, Kelvin) THEN i + 3
    ELSE -1

\* the end of the (?i) match of the literal lit at index i of t, -1 if none
RECURSIVE LitEndCI(_, _, _)
LitEndCI(t, i, lit) ==
    IF lit = "" THEN i
    ELSE IF FoldStep(t, i, Ch(lit, 0)) < 0 THEN -1
    ELSE LitEndCI(t, FoldStep(t, i, Ch(lit, 0)), Tail(lit))

\* the width of one rune of \w at index i: under (?i) the class also holds
\* U+017F and U+212A
WordRuneLen(t, i, ci) ==
    IF i < Len(t) /\ IsWordChar(Ch(t, i)) THEN 1
    ELSE IF ci /\ At(t, i, LongS) THEN 2
    ELSE IF ci /\ At(t, i, Kelvin) THEN 3
    ELSE 0

\* the ends of the runs of one or more \w runes from index i
RECURSIVE WordStops(_, _, _)
WordStops(t, i, ci) ==
    LET e == WordEnd(t, i)
        w == WordRuneLen(t, e, ci)
    IN ((i + 1)..e) \cup (IF w > 0 THEN {e + w} \cup WordStops(t, e + w, ci) ELSE {})

\* does the item sequence its match t from index i on; under (?i) letters
\* match by Go's simple case folding
RECURSIVE ReMatchAt(_, _, _, _)
ReMatchAt(t, i, its, ci) ==
    IF its = <<>> THEN TRUE
    ELSE LET it == Head(its) IN
         CASE it[1] = "lit" ->
                  IF ci THEN LitEndCI(t, i, it[2]) >= 0 /\ ReMatchAt(t, LitEndCI(t, i, it[2]), Tail(its), ci)
                  ELSE /\ i + Len(it[2]) <= Len(t)
                       /\ Slice(t, i, i + Len(it[2])) = it[2]
                       /\ ReMatchAt(t, i + Len(it[2]), Tail(its), ci)
           [] it[1] = "cls" ->
                  i < Len(t) /\ Ch(t, i) \in it[2] /\ ReMatchAt(t, i + 1, Tail(its), ci)
           [] it[1] = "any" ->
                  \E j \in i..(IF FirstFrom(t, i, "\n") >= 0 THEN FirstFrom(t, i, "\n") ELSE Len(t)) :
                      ReMatchAt(t, j, Tail(its), ci)
           [] it[1] = "ws" ->
                  \E j \in i..WsEnd(t, i) : ReMatchAt(t, j, Tail(its), ci)
           [] it[1] = "word" ->
                  \E j \in WordStops(t, i, ci) : ReMatchAt(t, j, Tail(its), ci)

\* regexp.FindStringIndex(s)[0], or -1 when there is no match: the leftmost
\* index at which some alternative matches
ReFind(s, re) ==
    Only([is \in {{i \in 0..Len(s) : \E a \in 1..Len(re.alts) : ReMatchAt(s, i, re.alts[a], re.ci)}} |->
        IF is = {} THEN -1 ELSE CHOOSE i \in is : \A j \in is : i <= j])

\* tabPatterns without its role="tablist" pattern
tabPatterns_NoTablist == <<
    Re(TRUE, <<<<Lit("role="), Quote, Lit("tab"), Quote>>>>),
    Words(TRUE, <<"aria-selected">>),
    Re(TRUE, <<<<Lit("className="), <<"any">>, Lit("tab"), <<"any">>, Lit("active")>>>>),
    Words(TRUE, <<"activeTab", "selectedTab", "currentTab">>) >>

tabPatterns == <<
    Re(TRUE, <<<<Lit("role="), Quote, Lit("tablist"), Quote>>>>),
    Re(TRUE, <<<<Lit("role="), Quote, Lit("tab"), Quote>>>>),
    Words(TRUE, <<"aria-selected">>),
    Re(TRUE, <<<<Lit("className="), <<"any">>, Lit("tab"), <<"any">>, Lit("active")>>>>),
    Words(TRUE, <<"activeTab", "selectedTab", "currentTab">>) >>

filterPatterns == <<
    Re(FALSE, <<<<Lit(".filter"), <<"ws">>, Lit("(")>>>>),
    Words(TRUE, <<"searchTerm", "filterValue", "query">>),
    Re(TRUE, <<<<Lit("type="), Quote, Lit("search"), Quote>>>>),
    Re(TRUE, <<<<Lit("onChange"), <<"any">>, Lit("filter")>>>>) >>

formDepsPatterns == <<
    Re(TRUE, <<<<Lit("disabled={"), <<"any">>, Lit("}")>>>>),
    Re(TRUE, <<<<Lit("hidden"), <<"any">>, Lit("&&")>>>>),
    Re(TRUE, <<<<Lit("style={"), <<"any">>, Lit("display"), <<"any">>, Lit("none")>>>>),
    Words(TRUE, <<"showIf", "hideIf", "visibleWhen">>) >>

modalPatterns == <<
    Re(TRUE, <<<<Lit("role="), Quote, Lit("dialog"), Quote>>>>),
    Words(TRUE, <<"aria-modal">>),
    Words(TRUE, <<"Modal", "Dialog">>),
    Words(TRUE, <<"isOpen", "showModal", "modalOpen">>) >>

darkModePatterns == <<
    Words(TRUE, <<"darkMode", "darkTheme", "isDark">>),
    Re(TRUE, <<<<Lit("theme"), <<"any">>, Lit("dark")>>, <<Lit("dark"), <<"any">>, Lit("theme")>>>>),
    Words(TRUE, <<"prefers-color-scheme">>),
    Words(TRUE, <<"toggleTheme", "toggleDark">>) >>

paginationPatterns == <<
    Words(TRUE, <<"pagination", "paginate">>),
    Re(TRUE, <<<<Lit("pageNumber")>>, <<Lit("currentPage")>>, <<Lit("page"), <<"ws">>, Lit("=")>>>>),
    Words(TRUE, <<"nextPage", "prevPage", "previousPage">>),
    Words(TRUE, <<"itemsPerPage", "pageSize", "limit">>) >>

accordionPatterns == <<
    Words(TRUE, <<"accordion">>),
    Words(TRUE, <<"collapsible">>),
    Re(TRUE, <<<<Lit("expand"), <<"any">>, Lit("collapse")>>, <<Lit("collapse"), <<"any">>, Lit("expand")>>>>),
    Words(TRUE, <<"aria-expanded">>) >>

togglePatterns == <<
    Words(TRUE, <<"toggle", "switch">>),
    Re(TRUE, <<<<Lit("setIs"), <<"word">>, Lit("(!")>>>>),
    Re(TRUE, <<<<Lit("prev"), <<"ws">>, Lit("=>"), <<"ws">>, Lit("!prev")>>>>),
    Re(TRUE, <<<<Lit("type="), Quote, Lit("checkbox"), Quote>>>>) >>

sortablePatterns == <<
    Words(TRUE, <<"sortColumn", "sortBy", "sortField">>),
    Words(TRUE, <<"sortDirection", "sortOrder", "ascending", "descending">>),
    Re(TRUE, <<<<Lit(".sort"), <<"ws">>, Lit("(")>>>>),
    Re(TRUE, <<<<Lit("onClick"), <<"any">>, Lit("sort")>>>>) >>

\* the loop shared by the detect*Pattern functions: the first pattern that
\* matches adds one record at the line of its match, then break
detectFirst(ps, source, pats, type, conf) ==
    Only([locs \in {[k \in 1..Len(pats) |-> ReFind(source, pats[k])]} |->
        IF \A k \in 1..Len(pats) : locs[k] < 0 THEN ps
        ELSE Only([k \in {CHOOSE k \in 1..Len(pats) : locs[k] >= 0 /\ \A k2 \in 1..(k - 1) : locs[k2] < 0} |->
                 addPattern(ps, PatRec(type, countLines(source, locs[k]), conf, <<>>, <<>>))])])

detectTabsPattern(ps, s) == detectFirst(ps, s, tabPatterns, "tabs", 80)
detectFilterPattern(ps, s) == detectFirst(ps, s, filterPatterns, "filter", 70)
detectFormDepsPattern(ps, s) == detectFirst(ps, s, formDepsPatterns, "form-dependencies", 60)
detectModalPattern(ps, s) == detectFirst(ps, s, modalPatterns, "modal", 70)
detectDarkModePattern(ps, s) == detectFirst(ps, s, darkModePatterns, "dark-mode", 90)
detectPaginationPattern(ps, s) == detectFirst(ps, s, paginationPatterns, "pagination", 75)
detectAccordionPattern(ps, s) == detectFirst(ps, s, accordionPatterns, "accordion", 75)
detectTogglePattern(ps, s) == detectFirst(ps, s, togglePatterns, "toggle", 70)
detectSortableTablePattern(ps, s) == detectFirst(ps, s, sortablePatterns, "sortable-table", 75)

\* Detector.AnalyzeSource: reset d.patterns, then the nine detectors in order
AnalyzeSource(s) ==
    detectSortableTablePattern(
     detectTogglePattern(
      detectAccordionPattern(
       detectPaginationPattern(
        detectDarkModePattern(
         detectModalPattern(
          detectFormDepsPattern(
           detectFilterPattern(
            detectTabsPattern(<<>>, s), s), s), s), s), s), s), s), s)

\* the orders in which a Go range over a map with key set S may visit it
\* (Go randomises map iteration; every order is allowed here)
\* stateNames: strings.ToLower(sv.Name) -> sv, a later variable replacing an
\* earlier one of the same lower-cased name
stateNames(comp) ==
    LET svs == comp.stateVars
    IN [n \in {ToLower(svs[i].name) : i \in DOMAIN svs} |->
          svs[CHOOSE i \in DOMAIN svs :
                 /\ ToLower(svs[i].name) = n
                 /\ \A i2 \in DOMAIN svs : ToLower(svs[i2].name) = n => i2 <= i]]

hasDerivedFilter(comp) == \E k \in DOMAIN comp.derivedVars : comp.derivedVars[k].op = "filter"

\* the record the given loop of analyzeStatePatterns adds for key n and its
\* variable sv: {} when it adds none
stateLoopRec(loop, n, sv, comp) ==
    CASE loop = "tabs" ->
            IF (Contains(n, "tab") \/ Contains(n, "selected")) /\ sv.type = "string"
            THEN {PatRec("tabs", sv.line, 85, <<sv.name>>, <<>>)} ELSE {}
      [] loop = "filter" ->
            IF (Contains(n, "filter") \/ Contains(n, "search") \/ Contains(n, "query")) /\ sv.type = "string"
            THEN {PatRec("filter", sv.line, IF hasDerivedFilter(comp) THEN 95 ELSE 70, <<sv.name>>, <<>>)}
            ELSE {}
      [] loop = "bool" ->
            IF sv.type # "bool" THEN {}
            ELSE IF Contains(n, "modal") \/ Contains(n, "dialog")
                 THEN {PatRec("modal", sv.line, 85, <<sv.name>>, <<>>)}
            ELSE IF Contains(n, "open") \/ Contains(n, "expanded") \/ Contains(n, "collapsed")
                 THEN {PatRec("accordion", sv.line, 75, <<sv.name>>, <<>>)}
            ELSE IF Contains(n, "active") \/ Contains(n, "enabled") \/ Contains(n, "show") \/ Contains(n, "visible")
                 THEN {PatRec("toggle", sv.line, 70, <<sv.name>>, <<>>)}
            ELSE {}
      [] loop = "page" ->
            IF (Contains(n, "page") \/ Contains(n, "offset")) /\ sv.type \in {"int", "float64"}
            THEN {PatRec("pagination", sv.line, 80, <<sv.name>>, <<>>)} ELSE {}
      [] loop = "sort" ->
            IF Contains(n, "sort") THEN {PatRec("sortable-table", sv.line, 80, <<sv.name>>, <<>>)} ELSE {}

\* addPattern for each key of an iteration order, in that order
RECURSIVE stateLoopRun(_, _, _, _, _)
stateLoopRun(ps, loop, sn, ord, comp) ==
    IF ord = <<>> THEN ps
    ELSE Only([r \in {stateLoopRec(loop, Head(ord), sn[Head(ord)], comp)} |->
             stateLoopRun(IF r = {} THEN ps ELSE addPattern(ps, CHOOSE x \in r : TRUE), loop, sn, Tail(ord), comp)])

\* one "for name, sv := range stateNames" loop, from every list of pss and
\* in every iteration order: the set of lists it can leave
stateLoop(pss, loop, comp) ==
    Only([sn \in {stateNames(comp)} |->
        UNION {{stateLoopRun(ps, loop, sn, ord, comp) : ord \in Perms(DOMAIN sn)} : ps \in pss}])

\* Detector.analyzeStatePatterns: its five loops over stateNames in order
analyzeStatePatterns(pss, comp) ==
    stateLoop(stateLoop(stateLoop(stateLoop(stateLoop(pss, "tabs", comp), "filter", comp),
                                  "bool", comp), "page", comp), "sort", comp)

\* Detector.analyzeDerivedPatterns: the loop over comp.DerivedVars
RECURSIVE analyzeDerivedPatterns(_, _)
analyzeDerivedPatterns(ps, dvs) ==
    IF dvs = <<>> THEN ps
    ELSE LET dv == Head(dvs) IN
         analyzeDerivedPatterns(
             CASE dv.op = "filter" ->
                     IF \E k \in DOMAIN ps : ps[k].type = "filter" THEN ps
                     ELSE addPattern(ps, PatRec("filter", dv.line, 65, <<>>, <<dv.name>>))
               [] dv.op = "sort" ->
                     addPattern(ps, PatRec("sortable-table", dv.line, 75, <<>>, <<dv.name>>))
               [] OTHER -> ps,
             Tail(dvs))

\* Hook.Name, which detectHook never sets
HookName(h) == ""

\* Detector.analyzeStateUsage on a useState hook
analyzeStateUsage(ps, h) ==
    LET n == ToLower(HookName(h))
        p1 == IF Contains(n, "tab") \/ Contains(n, "active")
              THEN addPattern(ps, PatRec("tabs", h.line, 70, <<>>, <<>>)) ELSE ps
        p2 == IF Contains(n, "filter") \/ Contains(n, "search") \/ Contains(n, "query")
              THEN addPattern(p1, PatRec("filter", h.line, 80, <<>>, <<>>)) ELSE p1
        p3 == IF Contains(n, "modal") \/ Contains(n, "open") \/ Contains(n, "show")
              THEN addPattern(p2, PatRec("modal", h.line, 60, <<>>, <<>>)) ELSE p2
        p4 == IF Contains(n, "dark") \/ Contains(n, "theme")
              THEN addPattern(p3, PatRec("dark-mode", h.line, 90, <<>>, <<>>)) ELSE p3
    IN IF Contains(n, "page") \/ Contains(n, "offset") \/ Contains(n, "limit")
       THEN addPattern(p4, PatRec("pagination", h.line, 70, <<>>, <<>>)) ELSE p4

\* Detector.analyzeEffectUsage
analyzeEffectUsage(ps, h) == addPattern(ps, PatRec("effect", h.line, 50, <<>>, <<>>))

\* the hooks loop of analyzeComponent
RECURSIVE hooksLoop(_, _)
hooksLoop(ps, hs) ==
    IF hs = <<>> THEN ps
    ELSE hooksLoop(CASE Head(hs).type = "useState" -> analyzeStateUsage(ps, Head(hs))
                     [] Head(hs).type = "useEffect" -> analyzeEffectUsage(ps, Head(hs))
                     [] OTHER -> ps,
                   Tail(hs))

\* Detector.analyzeComponent, from every list of pss
analyzeComponent(pss, comp) ==
    {hooksLoop(analyzeDerivedPatterns(ps, comp.derivedVars), comp.hooks) :
        ps \in analyzeStatePatterns(pss, comp)}

RECURSIVE analyzeComponents(_, _)
analyzeComponents(pss, comps) ==
    IF comps = <<>> THEN pss ELSE analyzeComponents(analyzeComponent(pss, Head(comps)), Tail(comps))

\* Detector.Analyze: reset d.patterns, then analyzeComponent per component;
\* the set of lists it can return
Analyze(comps) == analyzeComponents({<<>>}, comps)

(* ---------------------------------------------------------------------- *)
(* main.go: after Parse, detector.AnalyzeSource(input) followed by          *)
(* detector.Analyze(result), run twice                                     *)
(* ---------------------------------------------------------------------- *)

DetLinesA == {"  const [searchTerm, setSearchTerm] = useState('')",
              "  const [activeTab, setActiveTab] = useState('a')",
              "  const [isDark, setIsDark] = useState(false)"}
DetLinesB == {"  const [page, setPage] = useState(1)",
              "  useEffect(load)",
              "  const n = 1"}
DetReturns == {"<div role=\"tablist\"/>", "<div/>", "<input type=\"search\"/>", "<div role=\"tabliÅ¿t\"/>"}

\* two state variables whose names differ only in case
C18Input == "function App() {\n  const [search, setSearch] = useState('')\n  const [Search, setSearch2] = useState('')\n  return <div/>\n}"

\* a sort state variable next to a derived sort; a filter state variable in
\* one component and a derived filter in the next
C20Inputs ==
    {"function App() {\n  const [sortBy, setSortBy] = useState('name')\n  const rows = items.sort(sortBy)\n  return <div/>\n}",
     "function A() {\n  const [query, setQuery] = useState('')\n  return <div/>\n}\nfunction B() {\n  const shown = items.filter(ok)\n  return <div/>\n}"}

DetSources == {"function App() {\n" \o a \o "\n" \o b \o "\n  return " \o r \o "\n}" :
                  a \in DetLinesA, b \in DetLinesB, r \in DetReturns} \cup {C18Input} \cup C20Inputs

DetInit ==
    /\ LexIdle /\ PipeIdle /\ ExtIdle /\ AssocIdle /\ ExprIdle /\ TypeIdle
    /\ dsrc \in DetSources
    /\ dcomps = <<>> /\ draw = <<>> /\ dsem = <<>> /\ draw2 = <<>> /\ dsem2 = <<>>
    /\ dphase = "start"

\* result := parser.NewParserWithSource(parser.NewLexer(input).Tokenize(), input).Parse()
DetParse ==
    /\ dphase = "start"
    /\ \E r \in Parse(Tokenize(dsrc), dsrc) :
          /\ ~r.spin
          /\ dcomps' = r.components
    /\ dphase' = "parsed"
    /\ UNCHANGED <<dsrc, draw, dsem, draw2, dsem2>>
    /\ UNCHANGED <<lexVars, pipeVars, extVars, assocVars, exprVars, typeVars>>

\* detectedPatterns := detector.AnalyzeSource(input);
\* parsedPatterns := detector.Analyze(result)
DetRun1 ==
    /\ dphase = "parsed"
    /\ draw' = AnalyzeSource(dsrc)
    /\ \E out \in Analyze(dcomps) : dsem' = out
    /\ dphase' = "run1"
    /\ UNCHANGED <<dsrc, dcomps, draw2, dsem2>>
    /\ UNCHANGED <<lexVars, pipeVars, extVars, assocVars, exprVars, typeVars>>

\* the same two calls once more on the same input
DetRun2 ==
    /\ dphase = "run1"
    /\ draw2' = AnalyzeSource(dsrc)
    /\ \E out \in Analyze(dcomps) : dsem2' = out
    /\ dphase' = "run2"
    /\ UNCHANGED <<dsrc, dcomps, draw, dsem>>
    /\ UNCHANGED <<lexVars, pipeVars, extVars, assocVars, exprVars, typeVars>>

DetNext == DetParse \/ DetRun1 \/ DetRun2

DetSpec == DetInit /\ [][DetNext]_vars

\* Analyze on its own, on parse results of one or two components. A case
\* gives the stateVars, derivedVars and hooks of a component at line L.
SV(n, t, l) == [name |-> n, type |-> t, line |-> l]
DV(n, o, l) == [name |-> n, op |-> o, line |-> l]
HK(t, l) == [type |-> t, line |-> l]

AnaCase(c, L) ==
    [line |-> L] @@
    CASE c = "searchFiltered" ->
            [stateVars |-> <<SV("search", "string", L + 1)>>,
             derivedVars |-> <<DV("shown", "filter", L + 2)>>, hooks |-> <<>>]
      [] c = "search" ->
            [stateVars |-> <<SV("search", "string", L + 1)>>, derivedVars |-> <<>>, hooks |-> <<>>]
      [] c = "searchTwice" ->
            [stateVars |-> <<SV("search", "string", L + 1), SV("Search", "string", L + 2)>>,
             derivedVars |-> <<>>, hooks |-> <<>>]
      [] c = "bools" ->
            [stateVars |-> <<SV("isOpen", "bool", L + 1), SV("showModal", "bool", L + 2),
                             SV("visible", "bool", L + 3)>>,
             derivedVars |-> <<>>, hooks |-> <<>>]
      [] c = "loading" ->
            [stateVars |-> <<SV("loading", "bool", L + 1)>>, derivedVars |-> <<>>, hooks |-> <<>>]
      [] c = "sorted" ->
            [stateVars |-> <<SV("sortBy", "string", L + 1)>>,
             derivedVars |-> <<DV("rows", "sort", L + 2)>>, hooks |-> <<>>]
      [] c = "filterOnly" ->
            [stateVars |-> <<>>, derivedVars |-> <<DV("matches", "filter", L + 1)>>, hooks |-> <<>>]
      [] c = "sameLine" ->
            [stateVars |-> <<SV("query", "string", L + 1), SV("activeTab", "string", L + 1),
                             SV("page", "int", L + 2)>>,
             derivedVars |-> <<DV("visibleRows", "filter", L + 2)>>,
             hooks |-> <<HK("useState", L + 1), HK("useEffect", L + 3)>>]

AnaCases == {"searchFiltered", "search", "searchTwice", "bools", "loading", "sorted",
             "filterOnly", "sameLine"}

\* components at lines 1 and 11
AnaComps ==
    {<<AnaCase(c, 1)>> : c \in AnaCases} \cup
    {<<AnaCase(c, 1), AnaCase(c2, 11)>> : c \in AnaCases, c2 \in AnaCases}

AnaInit ==
    /\ LexIdle /\ PipeIdle /\ ExtIdle /\ AssocIdle /\ ExprIdle /\ TypeIdle
    /\ dsrc = ""
    /\ dcomps \in AnaComps
    /\ draw = <<>> /\ dsem = <<>> /\ draw2 = <<>> /\ dsem2 = <<>>
    /\ dphase = "parsed"

AnaNext == DetRun1 \/ DetRun2

AnaSpec == AnaInit /\ [][AnaNext]_vars

(* ---------------------------------------------------------------------- *)
(* inferTypeFromValue on its own                                           *)
(* ---------------------------------------------------------------------- *)

TypeValues ==
    {"", " ", "\"\"", "''", "\"a b\"", "'x'", "\"", "'a\"", "true", "false", "True",
     " 42 ", "-7", "+3", "007", "9223372036854775807", "9223372036854775808",
     "-9223372036854775808", "10000000000000000000", "1_000", "1__0", "_1", "1_",
     "1.5", ".5", "5.", ".", "1e3", "1E-2", "1e", "1e+", "2.5e1_0", "1e400", "1e-400",
     "1.7976931348623157e308", "1.8e308", "0x1p-2", "0x10", "0x1.8P3", "0x_1p0",
     "0x1p1024", "0x1p1023", "Inf", "-infinity", "NaN", "+nan", "infin",
     "[]", "[1, 2]", "{}", "{a: 1}", "null", "undefined", "users", "class", "bus",
     "ids", "Items2", "$refs", "props.items", "myList", "DataSet", "arrayOf", "x",
     "f()", "a.b", "1.2.3",
     "1.797693134862315807938e308", "1.797693134862315807937e308", "179769313486231580794e288",
     "0x1.fffffffffffff8p1023", "0x1.fffffffffffff7p1023",
     "\f5", VT \o "2" \o NBSP, BQ \o BQ, BQ \o "x" \o BQ, BQ,
     "Ä°tems", "LÄ°ST", "þlist", "âªeys"}

TypeInit ==
    /\ LexIdle /\ PipeIdle /\ ExtIdle /\ AssocIdle /\ ExprIdle /\ DetIdle
    /\ tval \in TypeValues
    /\ ttype = ""
    /\ tphase = "start"

\* sv.InitType = inferTypeFromValue(initValue)
TypeInfer ==
    /\ tphase = "start"
    /\ ttype' = inferTypeFromValue(tval)
    /\ tphase' = "done"
    /\ UNCHANGED tval
    /\ UNCHANGED <<lexVars, pipeVars, extVars, assocVars, exprVars, detVars>>

TypeNext == TypeInfer

TypeSpec == TypeInit /\ [][TypeNext]_vars

(* ---------------------------------------------------------------------- *)
(* Claims about the tokenizer                                              *)
(* ---------------------------------------------------------------------- *)

RECURSIVE ConcatValues(_)
ConcatValues(ts) == IF ts = <<>> THEN "" ELSE Head(ts).value \o ConcatValues(Tail(ts))

EOFCount(ts) == Cardinality({i \in 1..Len(ts) : ts[i].type = "EOF"})

\* C2: when Tokenize returns, its token sequence contains exactly one EOF
\* token and that token is the last one.
C2_OneEOFLast ==
    lpc = "done" => (EOFCount(ltoks) = 1 /\ ltoks[Len(ltoks)].type = "EOF")

\* C2 witness: Tokenize has returned on a text with several tokens
C2_Witness == lpc = "done" /\ Len(ltoks) >= 3

\* C3: when Tokenize returns, concatenating the values of its tokens in
\* order gives back the input text exactly.
C3_RoundTrip == lpc = "done" => ConcatValues(ltoks) = lin

(* ---------------------------------------------------------------------- *)
(* Claims about the front end                                              *)
(* ---------------------------------------------------------------------- *)

\* C1: Tokenize followed by Parse returns for every input: no parser loop
\* comes back to the same state without consuming a token.
C1_Terminates == phase = "done" => ~pres.spin

\* the elements of a node tree, nested expression bodies included
RECURSIVE Elems(_)
Elems(n) ==
    CASE n.kind = "Element" -> {n} \cup UNION {Elems(n.children[i]) : i \in DOMAIN n.children}
      [] n.kind = "Fragment" -> UNION {Elems(n.children[i]) : i \in DOMAIN n.children}
      [] n.kind = "Map" -> Elems(n.body)
      [] n.kind = "Conditional" -> Elems(n.consequent)
      [] n.kind = "Ternary" -> Elems(n.consequent) \cup Elems(n.alternate)
      [] OTHER -> {}

\* C9: the input function C({x}){ return <div>{x}</div>; } parses to one
\* component C with the one prop x, whose body is a div element with one
\* child, the expression x.
C9_Scenario ==
    (phase = "done" /\ input = C9Input) =>
        LET cs == pres.components IN
        /\ Len(cs) = 1
        /\ cs[1].name = "C"
        /\ Len(cs[1].props) = 1 /\ cs[1].props[1].name = "x"
        /\ cs[1].body.kind = "Element" /\ cs[1].body.tag = "div"
        /\ Len(cs[1].body.children) = 1
        /\ cs[1].body.children[1].kind = "Expression"
        /\ cs[1].body.children[1].raw = "x"

\* C9 witness: the scenario's input has been tokenized and parsed
C9_Witness == phase = "done" /\ input = C9Input

\* C11: when the first definition (function A() { return null; } or
\* const MAX = 5;) has no return of a tag tree, its component has a null
\* body, and the following function B is parsed as its own component
\* whose body is the div element.
C11_OwnBody ==
    (phase = "done" /\ input \in C11Inputs /\ ~pres.spin) =>
        LET cs == pres.components IN
        /\ Len(cs) >= 1 /\ cs[1].body.kind = "nil"
        /\ \E i \in DOMAIN cs : cs[i].name = "B" /\ cs[i].body.kind = "Element" /\ cs[i].body.tag = "div"

\* a hook name: "use" followed by a capitalised word
IsHookName(v) == Len(v) > 3 /\ HasPrefix(v, "use") /\ Ch(v, 3) \in Upper

\* C12: every hook recorded for a component is a "use" + capitalised word
\* identifier of its body (so users, user, useful are never hooks), and
\* every hook suggestion names such a hook.
C12_HooksAreHookCalls ==
    phase = "done" =>
        /\ \A i \in DOMAIN pres.components :
              \A k \in DOMAIN pres.components[i].hooks : IsHookName(pres.components[i].hooks[k].type)
        /\ \A k \in DOMAIN pres.sugs : IsHookName(pres.sugs[k].react)

\* C10: every element of a returned tree whose closing tag name differs from
\* its start tag name comes with a mismatched-closing-tag warning in the
\* ParseResult, wherever it sits in the tree.
C10_MismatchWarned ==
    (phase = "done" /\ ~pres.spin) =>
        \A i \in DOMAIN pres.components :
            \A e \in Elems(pres.components[i].body) :
                e.closeTag \notin {"", e.tag} =>
                    \E w \in DOMAIN pres.warns : pres.warns[w].msg = MismatchMsg(e.tag, e.closeTag)

(* ---------------------------------------------------------------------- *)
(* Claims about the extraction functions                                   *)
(* ---------------------------------------------------------------------- *)

\* the 0-based positions where text t occurs in s
Occ(s, t) == {i \in 0..(Len(s) - Len(t)) : Slice(s, i, i + Len(t)) = t}

CountVarAt(L) ==
    \E k \in DOMAIN esvs :
        /\ esvs[k].name = "count" /\ esvs[k].setter = "setCount"
        /\ esvs[k].init = "0" /\ esvs[k].type = "int" /\ esvs[k].line = L

\* C4 (as stated): for every occurrence of
\* const [count, setCount] = useState(0) starting on line L, the extracted
\* state variables include count / setCount / 0 / int at line L.
C4_CountStateVar ==
    ephase \in {"derived", "done"} =>
        \A i \in Occ(esrc, CountStmt) : CountVarAt(LineOf(esrc, i))

\* C4 (amended): the same holds for every occurrence that does not start
\* strictly inside the text matched by an earlier useState declaration
\* (whose [^)]* initializer runs on to the first ")").
C4_CountStateVarAmended ==
    ephase \in {"derived", "done"} =>
        \A i \in Occ(esrc, CountStmt) :
            (~\E k \in DOMAIN StateMatches(esrc, 0) :
                 StateMatches(esrc, 0)[k].start < i /\ i < StateMatches(esrc, 0)[k].end)
            => CountVarAt(LineOf(esrc, i))

\* C4 witness: an occurrence after the first line has been extracted
C4_Witness ==
    ephase = "done" /\ \E i \in Occ(esrc, CountStmt) : LineOf(esrc, i) > 1 /\ CountVarAt(LineOf(esrc, i))

\* C5: when items is a state variable declared on an earlier line than an
\* occurrence of const visible = items.filter(i => i.active), the derived
\* variables include visible with operation filter, source items and items
\* among its dependencies.
C5_VisibleDerived ==
    (ephase = "done" /\
     \E i \in Occ(esrc, VisibleStmt) :
        \E k \in DOMAIN esvs : esvs[k].name = "items" /\ esvs[k].line < LineOf(esrc, i))
    => \E k \in DOMAIN edvs :
           /\ edvs[k].name = "visible" /\ edvs[k].op = "filter" /\ edvs[k].source = "items"
           /\ \E j \in DOMAIN edvs[k].deps : edvs[k].deps[j] = "items"

\* C6: every dependency of every derived variable is the name of a state
\* variable extracted from the same source.
C6_DepsAreStateVars ==
    ephase = "done" =>
        \A k \in DOMAIN edvs : \A j \in DOMAIN edvs[k].deps :
            \E v \in DOMAIN esvs : esvs[v].name = edvs[k].deps[j]

\* C6 witness: a derived variable with dependencies, next to one whose
\* source is not a state variable
C6_Witness ==
    /\ ephase = "done"
    /\ \E k \in DOMAIN edvs : edvs[k].deps # <<>>
    /\ \E k \in DOMAIN edvs : \A v \in DOMAIN esvs : esvs[v].name # edvs[k].source

(* ---------------------------------------------------------------------- *)
(* Claims about the association of variables with components              *)
(* ---------------------------------------------------------------------- *)

\* the lines of component i's range: up to the next component's line, or
\* to the end of the file for the last one
RangeEnd(i) == IF i < Len(acomps) THEN acomps[i + 1].line ELSE alines + 1

\* C7: each component gets exactly the state and derived variables whose
\* line lies in its range, so no variable goes to two components.
C7_LineRanges ==
    aphase = "done" =>
        /\ \A i \in DOMAIN aout :
              /\ aout[i].stateVars = SelectSeq(asvs, LAMBDA v : acomps[i].line <= v.line /\ v.line < RangeEnd(i))
              /\ aout[i].derivedVars = SelectSeq(advs, LAMBDA v : acomps[i].line <= v.line /\ v.line < RangeEnd(i))
        /\ \A i, j \in DOMAIN aout : i # j =>
              \A a \in DOMAIN aout[i].stateVars, b \in DOMAIN aout[j].stateVars :
                  aout[i].stateVars[a] # aout[j].stateVars[b]
        /\ \A i, j \in DOMAIN aout : i # j =>
              \A a \in DOMAIN aout[i].derivedVars, b \in DOMAIN aout[j].derivedVars :
                  aout[i].derivedVars[a] # aout[j].derivedVars[b]

(* ---------------------------------------------------------------------- *)
(* Claims about parseExpression                                            *)
(* ---------------------------------------------------------------------- *)

\* C8: analyzeExpression leaves the parser's cursor and token buffer where
\* parseExpressionContent left them; the bodies it parses are parsed by
\* fresh parsers.
C8_OuterUnchanged == xphase = "done" => (xp.pos = xexpr.pos /\ xp.toks = xexpr.toks)

\* C8 witness: an expression whose body was parsed (map, guard or ternary)
C8_Witness == xphase = "done" /\ xnode.kind \in {"Map", "Conditional", "Ternary"}

\* C13: for the expression text a ? <X/> : b ? <Y/> : <Z/>, the split at the
\* first top-level colon puts exactly <X/> in the consequent text and
\* b ? <Y/> : <Z/> in the alternate text, and the node is a Ternary.
C13_TernarySplit ==
    (xphase = "done" /\ xexpr.raw = C13Raw) =>
        /\ xexpr.tern = [ok |-> TRUE, cond |-> "a", cons |-> "<X/>", alt |-> "b ? <Y/> : <Z/>"]
        /\ xnode.kind = "Ternary"

\* the number of ( minus the number of ) among the characters 0..m of t
ParenDepth(t, m) ==
    Cardinality({i \in 0..m : Ch(t, i) = "("}) - Cardinality({i \in 0..m : Ch(t, i) = ")"})

\* the text strictly inside the parenthesis opening t, closed where the
\* depth count first returns to 0
InsideParen(t) ==
    LET ms == {m \in 1..(Len(t) - 1) : Ch(t, m) = ")" /\ ParenDepth(t, m) = 0}
    IN Slice(t, 1, CHOOSE m \in ms : \A m2 \in ms : m <= m2)

HasMatchedParen(t) ==
    HasPrefix(t, "(") /\ \E m \in 1..(Len(t) - 1) : Ch(t, m) = ")" /\ ParenDepth(t, m) = 0

\* C14: a Map node built from coll.map(item => BODY) or
\* coll.map((item, index) => BODY) has Collection coll, ItemVar item and
\* IndexVar index (empty without one), and when BODY starts with a
\* parenthesis its Body is the re-parse of the text strictly inside the
\* matching parenthesis.
C14_MapNode ==
    (xphase = "done" /\ xnode.kind = "Map") =>
        LET raw == xexpr.raw
            pre == IF xnode.indexVar = ""
                   THEN xnode.collection \o ".map(" \o xnode.itemVar \o " => "
                   ELSE xnode.collection \o ".map((" \o xnode.itemVar \o ", " \o xnode.indexVar \o ") => "
            body == Slice(raw, Len(pre), Len(raw))
        IN /\ HasPrefix(raw, pre)
           /\ HasMatchedParen(body) => xnode.body = SubParse(InsideParen(body)).n

\* C13 witness: the nested ternary has been analysed
C13_Witness == xphase = "done" /\ xexpr.raw = C13Raw /\ xnode.kind = "Ternary"

(* ---------------------------------------------------------------------- *)
(* Claims about the pattern detector                                       *)
(* ---------------------------------------------------------------------- *)

Tablist == "role=\"tablist\""

\* C15: for an input containing role="tablist", AnalyzeSource returns at
\* least one record of type Tabs with Confidence 0.8.
C15_TablistTabs ==
    (dphase \in {"run1", "run2"} /\ Contains(dsrc, Tablist)) =>
        \E k \in DOMAIN draw : draw[k].type = "tabs" /\ draw[k].conf = 80

\* C15 witness: AnalyzeSource has run on a source with role="tablist" that
\* names no tab state
C15_Witness ==
    /\ dphase = "run1" /\ Contains(dsrc, Tablist) /\ ~Contains(dsrc, "activeTab")
    /\ \E k \in DOMAIN draw : draw[k].type = "tabs"

\* the (Type, Line) pairs of a pattern list that occur more than once
DupKeys(ps) ==
    {<<ps[k].type, ps[k].line>> : k \in {k \in DOMAIN ps :
        \E k2 \in DOMAIN ps : k2 # k /\ ps[k2].type = ps[k].type /\ ps[k2].line = ps[k].line}}

\* C16: no two records of the list main hands to the report, AnalyzeSource's
\* records followed by Analyze's, share the same (Type, Line) pair.
C16_NoDupReported == dphase \in {"run1", "run2"} => DupKeys(draw \o dsem) = {}

\* the multiset of (Type, Line, Confidence) of a pattern list
TripleBag(ps) ==
    [x \in {<<ps[k].type, ps[k].line, ps[k].conf>> : k \in DOMAIN ps} |->
        Cardinality({k \in DOMAIN ps : <<ps[k].type, ps[k].line, ps[k].conf>> = x})]

\* both runs of the detector give the same (Type, Line, Confidence) multiset
SameTriples == dphase = "run2" => TripleBag(draw \o dsem) = TripleBag(draw2 \o dsem2)

\* C17: two runs of the detector (AnalyzeSource and Analyze) on the same
\* input give the same multiset of (Type, Line, Confidence), and within one
\* run no two records share (Type, Line).
C17_Idempotent ==
    dphase = "run2" =>
        /\ SameTriples
        /\ DupKeys(draw \o dsem) = {}
        /\ DupKeys(draw2 \o dsem2) = {}

\* C18: for a String-kind state variable named "search", Analyze produces a
\* Filter record at its line with Confidence 0.95 when its component has a
\* derived variable of Operation "filter", and 0.7 when it has none.
C18_SearchFilterConf ==
    dphase \in {"run1", "run2"} =>
        \A i \in DOMAIN dcomps : \A j \in DOMAIN dcomps[i].stateVars :
            LET sv == dcomps[i].stateVars[j]
            IN (sv.name = "search" /\ sv.type = "string") =>
                  \E k \in DOMAIN dsem :
                     /\ dsem[k].type = "filter" /\ dsem[k].line = sv.line
                     /\ dsem[k].conf = IF hasDerivedFilter(dcomps[i]) THEN 95 ELSE 70

BoolKinds == {<<"modal", 85>>, <<"accordion", 75>>, <<"toggle", 70>>}

\* C19: every Bool-kind state variable of a component gets exactly one
\* record of Analyze at its line that is Modal (0.85), Accordion (0.75) or
\* Toggle (0.7).
C19_BoolOneRecord ==
    dphase \in {"run1", "run2"} =>
        \A i \in DOMAIN dcomps : \A j \in DOMAIN dcomps[i].stateVars :
            LET sv == dcomps[i].stateVars[j]
            IN sv.type = "bool" =>
                  Cardinality({k \in DOMAIN dsem : dsem[k].line = sv.line /\
                                 <<dsem[k].type, dsem[k].conf>> \in BoolKinds}) = 1

\* the idiom of the standalone record of a derived variable's operation
IdiomOf(op) == IF op = "filter" THEN "filter" ELSE "sortable-table"

\* C20: a derived variable of Operation "filter" (resp. "sort") contributes a
\* standalone Filter (resp. SortableTable) record, of confidence 0.65 to
\* 0.75, exactly when its own component has no higher-confidence record of
\* that idiom; records of other components play no part.
C20_StandaloneIff ==
    dphase \in {"run1", "run2"} =>
        \A i \in DOMAIN dcomps : \A j \in DOMAIN dcomps[i].derivedVars :
            LET comp == dcomps[i]
                dv == comp.derivedVars[j]
                higher == \E k \in DOMAIN dsem :
                             /\ dsem[k].type = IdiomOf(dv.op) /\ dsem[k].conf > 75
                             /\ \E m \in DOMAIN comp.stateVars :
                                   /\ dsem[k].svars = <<comp.stateVars[m].name>>
                                   /\ dsem[k].line = comp.stateVars[m].line
                standalone == \E k \in DOMAIN dsem :
                                 /\ dsem[k].type = IdiomOf(dv.op) /\ dsem[k].line = dv.line
                                 /\ dsem[k].dvars = <<dv.name>> /\ dsem[k].conf \in 65..75
            IN dv.op \in {"filter", "sort"} => (standalone <=> ~higher)

\* C21: every useState hook whose bound variable name contains "dark" or
\* "theme" gets a DarkMode record of Confidence 0.9 from Analyze at its line.
C21_DarkHookRecord ==
    dphase \in {"run1", "run2"} =>
        \A i \in DOMAIN dcomps : \A h \in DOMAIN dcomps[i].hooks :
            LET hk == dcomps[i].hooks[h]
            IN (/\ hk.type = "useState"
                /\ \E m \in DOMAIN dcomps[i].stateVars :
                      /\ dcomps[i].stateVars[m].line = hk.line
                      /\ \/ Contains(ToLower(dcomps[i].stateVars[m].name), "dark")
                         \/ Contains(ToLower(dcomps[i].stateVars[m].name), "theme"))
               => \E k \in DOMAIN dsem :
                     dsem[k].type = "dark-mode" /\ dsem[k].conf = 90 /\ dsem[k].line = hk.line

\* an integer literal of JavaScript: an optional sign, then decimal digits,
\* single underscores allowed between two digits
IsJSInteger(v) ==
    LET body == IF Len(v) > 0 /\ Ch(v, 0) \in {"+", "-"} THEN Tail(v) ELSE v
    IN /\ Len(body) > 0 /\ AllIn(body, Digits \cup {"_"})
       /\ Ch(body, 0) \in Digits /\ Ch(body, Len(body) - 1) \in Digits
       /\ \A i \in 0..(Len(body) - 2) : ~(Ch(body, i) = "_" /\ Ch(body, i + 1) = "_")

\* the type the stated precedence assigns to a value
StatedType(value) ==
    LET val == TrimSpace(value)
        low == ToLower(val)
    IN CASE val \in {"", "\"\"", "''", BQ \o BQ} -> "string"
         [] \E q \in {"\"", "'", BQ} : HasPrefix(val, q) /\ HasSuffix(val, q) -> "string"
         [] val \in {"true", "false"} -> "bool"
         [] IsJSInteger(val) -> "int"
         [] IsParseFloat(val) -> "float64"
         [] HasPrefix(val, "[") -> "[]interface{}"
         [] HasPrefix(val, "{") -> "map[string]interface{}"
         [] val \in {"null", "undefined"} -> "interface{}"
         [] isSimpleIdent(val) /\ HasSuffix(low, "s") /\ ~HasSuffix(low, "ss") /\ Len(val) > 3 -> "[]interface{}"
         [] \E w \in {"items", "list", "data", "array"} : Contains(low, w) -> "[]interface{}"
         [] OTHER -> "interface{}"

\* C22: inferTypeFromValue follows the precedence empty or quoted-empty,
\* quoted string, true/false, integer, float, [, {, null/undefined, plural
\* identifier or items/list/data/array, otherwise unknown.
C22_TypePrecedence == tphase = "done" => ttype = StatedType(tval)

\* C23: a ternary whose consequent is an unparenthesised ternary splits at
\* the outer colon: condition a, consequent b ? <X/> : <Y/>, alternate <Z/>,
\* and the expression becomes a Ternary node.
C23_NestedConsequent ==
    (xphase = "done" /\ xexpr.raw = C23Raw) =>
        /\ xexpr.tern = [ok |-> TRUE, cond |-> "a", cons |-> "b ? <X/> : <Y/>", alt |-> "<Z/>"]
        /\ xnode.kind = "Ternary"

\* the identifiers of a text: maximal runs of word characters, in order,
\* each with the index just past it
RECURSIVE WordTokens(_, _)
WordTokens(b, i) ==
    LET is == {j \in i..(Len(b) - 1) : IsWordChar(Ch(b, j)) /\ (j = 0 \/ ~IsWordChar(Ch(b, j - 1)))}
    IN IF is = {} THEN <<>>
       ELSE LET j == CHOOSE j \in is : \A j2 \in is : j <= j2
            IN <<[id |-> Slice(b, j, WordEnd(b, j)), end |-> WordEnd(b, j)]>> \o WordTokens(b, WordEnd(b, j))

\* identifiers set + capital letter ... immediately followed by (
StatedSetters(b) ==
    LET ts == WordTokens(b, 0)
        ks == {k \in DOMAIN ts : /\ HasPrefix(ts[k].id, "set") /\ Len(ts[k].id) > 3
                                 /\ Ch(ts[k].id, 3) \in Upper /\ At(b, ts[k].end, "(")}
    IN [n \in 1..Cardinality(ks) |->
          ts[CHOOSE k \in ks : Cardinality({k2 \in ks : k2 <= k}) = n].id]

\* first occurrences of the bare lower-case identifiers, without the setters
\* and the fixed keyword list
StatedVars(b) ==
    LET ts == WordTokens(b, 0)
        setters == {StatedSetters(b)[k] : k \in DOMAIN StatedSetters(b)}
        ks == {k \in DOMAIN ts : /\ Ch(ts[k].id, 0) \in Lower
                                 /\ AllIn(ts[k].id, Lower \cup Upper \cup Digits)
                                 /\ ts[k].id \notin setters \cup HandlerKeywords
                                 /\ \A k2 \in 1..(k - 1) : ts[k2].id # ts[k].id}
    IN [n \in 1..Cardinality(ks) |->
          ts[CHOOSE k \in ks : Cardinality({k2 \in ks : k2 <= k}) = n].id]

\* C24: for an on+Capital attribute with an expression value, SetterCalls
\* lists the set+Capitalised identifiers immediately followed by (, and
\* StateVars the distinct bare lower-case identifiers other than those
\* setters and the keyword list, so settings or setup are recorded.
C24_HandlerLists ==
    (xphase = "attr" /\ xnode.kind = "EventHandler") =>
        /\ xnode.setterCalls = StatedSetters(xexpr.raw)
        /\ xnode.stateVars = StatedVars(xexpr.raw)

\* C25: every non-EOF token carries the position of its first character:
\* the token a scanToken step appends has Offset the cursor position the
\* step starts from, Line 1 + the newlines before it and Column counted
\* from the last newline before it, multi-line whitespace included.
C25_TokenStartPos ==
    [][ (lpc = "scan" /\ lx.pos < Len(lin) /\ Len(ltoks') = Len(ltoks) + 1)
          => /\ ltoks'[Len(ltoks')].offset = lx.pos
             /\ ltoks'[Len(ltoks')].line = StateAt(lin, lx.pos).line
             /\ ltoks'[Len(ltoks')].col = StateAt(lin, lx.pos).col ]_vars

C25_Witness ==
    \E k \in DOMAIN ltoks : ltoks[k].type = "Whitespace" /\ "\n" \in {Ch(ltoks[k].value, i) : i \in 0..(Len(ltoks[k].value) - 1)}

\* the index of the } balancing the { before index i (depth d), -1 if none
RECURSIVE BalancingBrace(_, _, _)
BalancingBrace(text, i, d) ==
    IF i >= Len(text) THEN -1
    ELSE IF Ch(text, i) = "{" THEN BalancingBrace(text, i + 1, d + 1)
    ELSE IF Ch(text, i) = "}" THEN (IF d = 1 THEN i ELSE BalancingBrace(text, i + 1, d - 1))
    ELSE BalancingBrace(text, i + 1, d)

\* the source text of each modelled expression input, by its token list
ExprTokensOf == [text \in ExprInputs |-> Tokenize(text)]

\* C26: the Raw of the collected Expression is the source text between
\* the opening { and its balancing }, trimmed: a string literal keeps its
\* quotes, so {x === 'a' ? <A/> : <B/>} has Raw x === 'a' ? <A/> : <B/>.
C26_RawIsSource ==
    xphase # "start" =>
        \E text \in ExprInputs :
            /\ ExprTokensOf[text] = xexpr.toks
            /\ BalancingBrace(text, 1, 1) >= 0
                  => xexpr.raw = TrimSpace(Slice(text, 1, BalancingBrace(text, 1, 1)))

C26_Witness == xphase = "done" /\ xexpr.tern.ok /\ xexpr.tern.cond = "x === a"

\* C27: no derived variable lists the same name twice in DependsOn, even
\* when its source collection is a state variable named in the expression.
C27_DepsDistinct ==
    \A k \in DOMAIN edvs : \A i, j \in DOMAIN edvs[k].deps :
        edvs[k].deps[i] = edvs[k].deps[j] => i = j

C27_Witness ==
    /\ ephase = "done"
    /\ \E k \in DOMAIN edvs : /\ \E v \in DOMAIN esvs : esvs[v].name = edvs[k].source
                              /\ edvs[k].expr # ""

\* the index of the first < of a text, -1 if none
FirstLt(raw) ==
    IF \E i \in 0..(Len(raw) - 1) : Ch(raw, i) = "<"
    THEN CHOOSE i \in 0..(Len(raw) - 1) : Ch(raw, i) = "<" /\ \A i2 \in 0..(i - 1) : Ch(raw, i2) # "<"
    ELSE -1

\* the indices of the && before the first <
GuardAnds(raw) == {j \in 0..(FirstLt(raw) - 2) : Slice(raw, j, j + 2) = "&&"}

LastGuardAnd(raw) == CHOOSE j \in GuardAnds(raw) : \A j2 \in GuardAnds(raw) : j2 <= j

\* a guard: a non-markup prefix without ?, then &&, then the markup
IsGuardChain(raw) ==
    /\ FirstLt(raw) >= 0
    /\ GuardAnds(raw) # {}
    /\ ~Contains(Slice(raw, 0, FirstLt(raw)), "?")
    /\ TrimSpace(Slice(raw, LastGuardAnd(raw) + 2, FirstLt(raw))) \in {"", "("}

\* C28: a guard with chained conjunctions (a && b && <X/>) is a Conditional
\* whose condition is the whole non-markup prefix (a && b) and whose
\* consequent is the element.
C28_GuardChainCondition ==
    (xphase = "done" /\ IsGuardChain(xexpr.raw)) =>
        /\ xnode.kind = "Conditional"
        /\ xnode.condition = TrimSpace(Slice(xexpr.raw, 0, LastGuardAnd(xexpr.raw)))
        /\ xnode.consequent.kind = "Element"

C28_Witness ==
    xphase = "done" /\ xexpr.raw = C28Raw /\ xnode.kind = "Conditional"

\* C29: a : inside the JSX text of a ternary's consequent does not split the
\* ternary: c ? <span>Due: {d}</span> : <b/> has the span element as its
\* consequent and <b/> as its alternate.
C29_ColonInText ==
    (xphase = "done" /\ xexpr.raw = C29Raw) =>
        /\ xnode.kind = "Ternary"
        /\ xnode.condition = "c"
        /\ xnode.consequent.kind = "Element" /\ xnode.consequent.tag = "span"
        /\ xnode.alternate.kind = "Element" /\ xnode.alternate.tag = "b"

C29_Witness ==
    xphase = "done" /\ xexpr.raw = C29Raw /\ xnode.kind = "Ternary"

\* C30: a top-level ternary with && in a branch (c ? <A/> : d && <B/>) is a
\* Ternary with condition c, not a Guard whose condition holds the ? and :.
C30_TernaryOverGuard ==
    (xphase = "done" /\ xexpr.raw = C30Raw) =>
        /\ xnode.kind = "Ternary"
        /\ xnode.condition = "c"

C30_Witness ==
    xphase = "done" /\ xexpr.raw = C30Raw

====
